---- MODULE Spec2Model ----
(***************************************************************************)
(* FigureLab: the undo/redo hook (hooks/useHistory.ts), the editor         *)
(* component that drives it (App.tsx), the chat panel and the SVG export.  *)
(*                                                                         *)
(* Seven specifications share the variables:                               *)
(*   SpecHistory   the hook alone, any interleaving of its five callbacks  *)
(*   SpecRoundTrip the hook alone, N setState then N undo then N redo      *)
(*   Spec          the App component driving the hook by hand              *)
(*   SpecAI        the chat panel's requests and the AI actions executed   *)
(*   SpecEdit      the App component running one editing handler by hand   *)
(*   SpecGeometry  routeConnector alone, on any two shapes                 *)
(*   SpecExport    exportSVG_Native alone, on a drawing and a background   *)
(***************************************************************************)
EXTENDS Integers, Sequences, FiniteSets, TLC

VARIABLES
    history,      \* useHistory: the HistoryState {past, present, future}
    selectedIds,  \* App: useState<string[]>
    bg,           \* App: useState<string>
    stageSize,    \* App: useState({width, height})
    showGrid,     \* App: useState(true)
    gridSize,     \* App: useState(20)
    snapEnabled,  \* App: useState(true)
    alerts,       \* what the last handler showed with alert() (alert blocks until dismissed)
    timers,       \* callbacks queued with setTimeout(..., 100), oldest first
    nextId,       \* number of ids uuidv4() has handed out
    chat,         \* ConversationalAI: messages, isProcessing, the request in flight
    marquee,      \* App: isSelecting, selRect and the ref selStart
    pre,          \* history variable: the state the last handler started from
    last,         \* history variable: the last handler run, with its inputs
    steps,        \* history variable: number of handlers run
    gesture,      \* history variable: the drag gesture under way
    fx,           \* history variable: log of the effects on store and selection
    batches,      \* history variable: number of AI responses executed
    rt,           \* history variable: progress of the round trip
    calc          \* a call of a pure function: its name, arguments and result

vars == <<history, selectedIds, bg, stageSize, showGrid, gridSize, snapEnabled,
          alerts, timers, nextId, chat, marquee, calc, pre, last, steps, gesture, fx, batches, rt>>

appVars == <<selectedIds, bg, stageSize, showGrid, gridSize, snapEnabled,
             alerts, timers, nextId, chat, marquee, gesture, fx, batches>>

(***************************************************************************)
(* hooks/useHistory.ts                                                     *)
(***************************************************************************)
MAX_HISTORY_LENGTH == 100

\* useState<HistoryState<T>>({past: [], present: initialState, future: []})
useHistory(initialState) ==
    [past |-> <<>>, present |-> initialState, future |-> <<>>]

\* a setState that forgets to trim
setState_noTrim(current, newState, skipHistory) ==
    IF skipHistory
    THEN [current EXCEPT !.present = newState]
    ELSE [past    |-> Append(current.past, current.present),
          present |-> newState,
          future  |-> <<>>]

\* a setState that keeps the redo stack
setState_keepFuture(current, newState, skipHistory) ==
    IF skipHistory
    THEN [current EXCEPT !.present = newState]
    ELSE LET newPast == Append(current.past, current.present)
         IN  [past    |-> IF Len(newPast) > MAX_HISTORY_LENGTH
                          THEN Tail(newPast) ELSE newPast,
              present |-> newState,
              future  |-> current.future]

\* a setState that ignores skipHistory
setState_alwaysPush(current, newState, skipHistory) ==
    LET newPast == Append(current.past, current.present)
    IN  [past    |-> IF Len(newPast) > MAX_HISTORY_LENGTH
                     THEN Tail(newPast) ELSE newPast,
         present |-> newState,
         future  |-> <<>>]

\* the updater setState hands to setHistory; newState is stored as given
setState(current, newState, skipHistory) ==
    IF skipHistory
    THEN [current EXCEPT !.present = newState]
    ELSE LET newPast == Append(current.past, current.present)
         IN  [past    |-> IF Len(newPast) > MAX_HISTORY_LENGTH
                          THEN Tail(newPast) ELSE newPast,
              present |-> newState,
              future  |-> <<>>]

\* an undo that drops the present instead of moving it to the redo stack
undo_dropPresent(current) ==
    IF Len(current.past) = 0
    THEN current
    ELSE [past    |-> SubSeq(current.past, 1, Len(current.past) - 1),
          present |-> current.past[Len(current.past)],
          future  |-> current.future]

\* the updater undo hands to setHistory
undo(current) ==
    IF Len(current.past) = 0
    THEN current
    ELSE [past    |-> SubSeq(current.past, 1, Len(current.past) - 1),
          present |-> current.past[Len(current.past)],
          future  |-> <<current.present>> \o current.future]

\* the updater redo hands to setHistory
redo(current) ==
    IF Len(current.future) = 0
    THEN current
    ELSE [past    |-> Append(current.past, current.present),
          present |-> Head(current.future),
          future  |-> Tail(current.future)]

\* a reset that only replaces the present
reset_keepStacks(current, newInitialState) ==
    [current EXCEPT !.present = newInitialState]

\* reset replaces the whole HistoryState; current is not read
reset(current, newInitialState) ==
    [past |-> <<>>, present |-> newInitialState, future |-> <<>>]

\* the updater clearHistory hands to setHistory
clearHistory(current) ==
    [past |-> <<>>, present |-> current.present, future |-> <<>>]

canUndo(current) == Len(current.past) > 0
canRedo(current) == Len(current.future) > 0

(***************************************************************************)
(* App.tsx: the canvas state kept in the hook                              *)
(*                                                                         *)
(* A shape or connector is a record holding the fields the object has (the *)
(* style fields fill, stroke, strokeWidth, opacity, name and draggable are *)
(* left out: no handler modelled here reads them).  What the App hands to  *)
(* setCanvasState is a function object; it is modelled as a record that    *)
(* names the function and holds the values it closed over, and such a      *)
(* record has no field shapes or connectors, like the function object.     *)
(***************************************************************************)
Has(r, f) == f \in DOMAIN r

\* {...a, ...b}
Spread(a, b) ==
    [f \in DOMAIN a \cup DOMAIN b |-> IF f \in DOMAIN b THEN b[f] ELSE a[f]]

\* uuidv4(): the n-th id handed out
Uuid(n) == "u" \o ToString(n)

\* useHistory<CanvasState>({ shapes: [], connectors: [] })
EmptyCanvas == [shapes |-> <<>>, connectors |-> <<>>]

\* canvasState.shapes is an array only while canvasState is a CanvasState
\* object; on a function object it is undefined.
IsCanvasState(present) == Has(present, "shapes") /\ Has(present, "connectors")

\* The component renders shapes.map(...) and connectors.map(...) (and reads
\* shapes.find / shapes.map in useMemo and getCanvasState): with
\* canvasState.shapes undefined the render throws, and React, having no error
\* boundary here, unmounts the component: its handlers are gone, and state
\* setters called later (from timers) change nothing.
Mounted(h) == IsCanvasState(h.present)

\* setShapes(updater, skipHistory): setCanvasState(prev => ..., skipHistory)
setShapes(h, updater, skipHistory) ==
    setState(h, [closure |-> "setShapes", updater |-> updater], skipHistory)

\* setConnectors(updater, skipHistory): setCanvasState(prev => ..., skipHistory)
setConnectors(h, updater, skipHistory) ==
    setState(h, [closure |-> "setConnectors", updater |-> updater], skipHistory)

\* updateShape(id, attrs): called with no skipHistory argument
updateShape(h, id, attrs) ==
    setShapes(h, [fn |-> "update", id |-> id, attrs |-> attrs], FALSE)

\* a refreshConnectors that passes skipHistory = true
refreshConnectors_skip(h, nextShapes) ==
    setConnectors(h, [fn |-> "refresh", nextShapes |-> nextShapes], TRUE)

\* refreshConnectors(nextShapes): called with no skipHistory argument
refreshConnectors(h, nextShapes) ==
    setConnectors(h, [fn |-> "refresh", nextShapes |-> nextShapes], FALSE)

\* const snap = (val) => snapEnabled ? Math.round(val / gridSize) * gridSize : val
\* (Math.round rounds halves up)
snap(val, enabled, size) ==
    IF enabled THEN ((2 * val + size) \div (2 * size)) * size ELSE val

\* shapes.map(sh => sh.id === id ? {...sh, ...attrs} : sh)
MapShape(shapes, id, attrs) ==
    [i \in DOMAIN shapes |->
        IF shapes[i].id = id THEN Spread(shapes[i], attrs) ELSE shapes[i]]

SeqToSet(q) == {q[i] : i \in DOMAIN q}

(***************************************************************************)
(* The state a handler reads and writes, as one record                     *)
(***************************************************************************)
Now ==
    [history |-> history, selectedIds |-> selectedIds, bg |-> bg,
     stageSize |-> stageSize, showGrid |-> showGrid, gridSize |-> gridSize,
     snapEnabled |-> snapEnabled, alerts |-> alerts, timers |-> timers,
     nextId |-> nextId, chat |-> chat, marquee |-> marquee, fx |-> fx]

\* the values of the last render, which the handlers of that render close over
Closure(R) ==
    [shapes |-> R.history.present.shapes, selectedIds |-> R.selectedIds,
     stageSize |-> R.stageSize, isProcessing |-> R.chat.isProcessing]

\* log an effect of AI action number idx / of a manual edit
LogAI(R, idx) ==
    [R EXCEPT !.fx = Append(@, [src |-> "ai", idx |-> idx, on |-> "store"])]
LogSelect(R, idx) ==
    [R EXCEPT !.fx = Append(@, [src |-> "ai", idx |-> idx, on |-> "selection"])]
LogManual(R) ==
    IF R.fx # <<>> /\ R.fx[Len(R.fx)].src = "ai" /\ R.timers # <<>>
    THEN [R EXCEPT !.fx = Append(@, [src |-> "manual", idx |-> 0, on |-> "store"])]
    ELSE R

(***************************************************************************)
(* JSON.parse(reader.result): a parsed value carries its JavaScript type   *)
(***************************************************************************)
JUndefined == [t |-> "undefined"]
JNull == [t |-> "null"]
JStr(v) == [t |-> "string", str |-> v]
JNum(v) == [t |-> "number", num |-> v]
JBool(v) == [t |-> "boolean", bool |-> v]
JArr(v) == [t |-> "array", arr |-> v]
JObj(v) == [t |-> "object", obj |-> v]

\* value.name; on null it throws a TypeError (see loadJSON)
Get(value, name) ==
    IF value.t = "object" /\ Has(value.obj, name) THEN value.obj[name] ELSE JUndefined

\* ToBoolean
Truthy(value) ==
    CASE value.t = "undefined" -> FALSE
      [] value.t = "null"      -> FALSE
      [] value.t = "string"    -> value.str # ""
      [] value.t = "number"    -> value.num # 0
      [] value.t = "boolean"   -> value.bool
      [] OTHER                 -> TRUE

\* the JavaScript value itself: an array of objects, an object of numbers
Raw(value) ==
    CASE value.t = "array"   -> value.arr
      [] value.t = "string"  -> value.str
      [] value.t = "number"  -> value.num
      [] value.t = "boolean" -> value.bool
      [] value.t = "object"  -> [f \in DOMAIN value.obj |-> value.obj[f].num]

(***************************************************************************)
(* App.tsx: loadJSON                                                       *)
(***************************************************************************)
\* a loadJSON that installs the document with setCanvasState
loadJSON_viaSetState(R, file) ==
    IF ~file.valid \/ file.value.t = "null"
    THEN [R EXCEPT !.alerts = "Could not load JSON"]
    ELSE LET parsed == file.value IN
         IF Get(parsed, "__shapes").t = "array"
         THEN [R EXCEPT
                 !.history = setState(R.history,
                                [shapes |-> Raw(Get(parsed, "__shapes")),
                                 connectors |->
                                    IF Truthy(Get(parsed, "__connectors"))
                                    THEN Raw(Get(parsed, "__connectors")) ELSE <<>>],
                                FALSE)]
         ELSE [R EXCEPT !.alerts = "This JSON isn't a saved project from this app."]

\* a loadJSON that applies the settings before it looks at __shapes
loadJSON_settingsFirst(R, file) ==
    IF ~file.valid \/ file.value.t = "null"
    THEN [R EXCEPT !.alerts = "Could not load JSON"]
    ELSE LET parsed == file.value
             R1 == [R EXCEPT
                      !.bg = IF Truthy(Get(parsed, "__bg"))
                             THEN Raw(Get(parsed, "__bg")) ELSE "#ffffff"]
         IN  IF Get(parsed, "__shapes").t = "array"
             THEN [R1 EXCEPT
                     !.history = reset(R.history,
                                    [shapes |-> Raw(Get(parsed, "__shapes")),
                                     connectors |->
                                        IF Truthy(Get(parsed, "__connectors"))
                                        THEN Raw(Get(parsed, "__connectors")) ELSE <<>>])]
             ELSE [R1 EXCEPT !.alerts = "This JSON isn't a saved project from this app."]

\* reader.onload of loadJSON(file).  file.valid: JSON.parse returns
\* file.value; otherwise it throws.  parsed.__shapes throws when parsed is null.
loadJSON(R, file) ==
    IF ~file.valid \/ file.value.t = "null"
    THEN [R EXCEPT !.alerts = "Could not load JSON"]
    ELSE LET parsed == file.value
             grid == Get(parsed, "__grid")
         IN  IF Get(parsed, "__shapes").t = "array"
             THEN [R EXCEPT
                     !.history = reset(R.history,
                                    [shapes |-> Raw(Get(parsed, "__shapes")),
                                     connectors |->
                                        IF Truthy(Get(parsed, "__connectors"))
                                        THEN Raw(Get(parsed, "__connectors")) ELSE <<>>]),
                     !.bg = IF Truthy(Get(parsed, "__bg"))
                            THEN Raw(Get(parsed, "__bg")) ELSE "#ffffff",
                     !.stageSize = IF Truthy(Get(parsed, "__size"))
                                   THEN Raw(Get(parsed, "__size"))
                                   ELSE [width |-> 1200, height |-> 800],
                     !.showGrid = IF Truthy(grid)
                                  THEN Truthy(Get(grid, "showGrid")) ELSE @,
                     !.gridSize = IF Truthy(grid)
                                  THEN IF Truthy(Get(grid, "gridSize"))
                                       THEN Raw(Get(grid, "gridSize")) ELSE 20
                                  ELSE @,
                     !.snapEnabled = IF Truthy(grid)
                                     THEN Truthy(Get(grid, "snapEnabled")) ELSE @]
             ELSE [R EXCEPT !.alerts = "This JSON isn't a saved project from this app."]

(***************************************************************************)
(* App.tsx: the manual handlers                                            *)
(***************************************************************************)
\* onClick of a shape: setSelectedIds(prev => multi ? toggle : [s.id])
onClick(R, id, multi) ==
    [R EXCEPT !.selectedIds =
        IF multi
        THEN IF id \in SeqToSet(@)
             THEN SelectSeq(@, LAMBDA x : x # id)
             ELSE Append(@, id)
        ELSE <<id>>]

\* addRect
addRect(R) ==
    LET id == Uuid(R.nextId + 1)
        shape == [id |-> id, type |-> "rect", x |-> 100, y |-> 100,
                  width |-> 240, height |-> 140, cornerRadius |-> 12,
                  fill |-> "#f8fafc", stroke |-> "#0f172a", strokeWidth |-> 2,
                  draggable |-> TRUE, name |-> "Rectangle"]
    IN  [R EXCEPT !.nextId = @ + 1,
                  !.history = setShapes(@, [fn |-> "append", shape |-> shape], FALSE),
                  !.selectedIds = <<id>>]

\* deleteSelected
deleteSelected(R, cl) ==
    IF cl.selectedIds = <<>>
    THEN R
    ELSE [R EXCEPT
            !.history =
                setConnectors(
                    setShapes(@, [fn |-> "remove", ids |-> cl.selectedIds], FALSE),
                    [fn |-> "removeLinked", ids |-> cl.selectedIds], FALSE),
            !.selectedIds = <<>>]

\* onDragMove of shape id, the dragged node being at (x, y)
onDragMove(R, cl, id, x, y) ==
    IF ~R.snapEnabled
    THEN R
    ELSE LET nx == snap(x, R.snapEnabled, R.gridSize)
             ny == snap(y, R.snapEnabled, R.gridSize)
             next == MapShape(cl.shapes, id, [x |-> nx, y |-> ny])
         IN  [R EXCEPT !.history = refreshConnectors(@, next)]

\* onDragEnd of shape id, the dragged node being at (x, y)
onDragEnd(R, cl, id, x, y) ==
    LET attrs == [x |-> snap(x, R.snapEnabled, R.gridSize),
                  y |-> snap(y, R.snapEnabled, R.gridSize)]
    IN  [R EXCEPT !.history =
            refreshConnectors(updateShape(@, id, attrs),
                              MapShape(cl.shapes, id, attrs))]

(***************************************************************************)
(* App.tsx: groupSelected, ungroupSelected, alignSelected                  *)
(***************************************************************************)
\* Math.min() and Math.max() of no values are +Infinity and -Infinity; the
\* arithmetic on them saturates.
Infinity == 1000000000
Saturate(v) == IF v > Infinity THEN Infinity ELSE IF v < 0 - Infinity THEN 0 - Infinity ELSE v

MathMin(S) == IF S = {} THEN Infinity ELSE CHOOSE v \in S : \A w \in S : v <= w
MathMax(S) == IF S = {} THEN 0 - Infinity ELSE CHOOSE v \in S : \A w \in S : v >= w

\* the right and bottom edge groupSelected takes for a member
GroupMaxX(s) ==
    CASE s.type = "rect"   -> s.x + s.width
      [] s.type = "circle" -> s.x + s.radius
      [] s.type = "image"  -> s.x + (IF Has(s, "width") /\ s.width # 0 THEN s.width ELSE 300)
      [] OTHER             -> s.x + 100
GroupMaxY(s) ==
    CASE s.type = "rect"   -> s.y + s.height
      [] s.type = "circle" -> s.y + s.radius
      [] s.type = "image"  -> s.y + (IF Has(s, "height") /\ s.height # 0 THEN s.height ELSE 200)
      [] OTHER             -> s.y + 100

\* groupSelected, run as effect number idx of an AI batch (idx = 0: by hand)
groupSelected(R, cl, idx) ==
    IF Len(cl.selectedIds) < 2
    THEN R
    ELSE LET groupId == Uuid(R.nextId + 1)
             selectedShapes ==
                 SelectSeq(cl.shapes, LAMBDA sh : sh.id \in SeqToSet(cl.selectedIds))
             minX == MathMin({selectedShapes[i].x : i \in DOMAIN selectedShapes})
             minY == MathMin({selectedShapes[i].y : i \in DOMAIN selectedShapes})
             maxX == MathMax({GroupMaxX(selectedShapes[i]) : i \in DOMAIN selectedShapes})
             maxY == MathMax({GroupMaxY(selectedShapes[i]) : i \in DOMAIN selectedShapes})
             group == [id |-> groupId, type |-> "group", x |-> minX, y |-> minY,
                       width |-> Saturate(maxX - minX), height |-> Saturate(maxY - minY),
                       name |-> "Group of " \o ToString(Len(cl.selectedIds)),
                       children |-> cl.selectedIds, draggable |-> TRUE]
             R1 == [R EXCEPT
                      !.nextId = @ + 1,
                      !.history = setShapes(@, [fn |-> "group", ids |-> cl.selectedIds,
                                                groupId |-> groupId, group |-> group],
                                            FALSE),
                      !.selectedIds = <<groupId>>]
         IN  IF idx = 0 THEN R1 ELSE LogSelect(LogAI(R1, idx), idx)

\* ungroupSelected
ungroupSelected(R, cl, idx) ==
    IF Len(cl.selectedIds) # 1
    THEN R
    ELSE LET selectedId == cl.selectedIds[1]
             found == SelectSeq(cl.shapes, LAMBDA sh : sh.id = selectedId)
         IN  IF found = <<>> \/ found[1].type # "group"
             THEN R
             ELSE LET childrenIds == found[1].children
                      R1 == [R EXCEPT
                               !.history = setShapes(@, [fn |-> "ungroup",
                                                         id |-> selectedId,
                                                         ids |-> childrenIds], FALSE),
                               !.selectedIds = childrenIds]
                  IN  IF idx = 0 THEN R1 ELSE LogSelect(LogAI(R1, idx), idx)

\* alignSelected(mode); the updater it passes would call refreshConnectors
alignSelected(R, cl, mode, idx) ==
    IF cl.selectedIds = <<>>
    THEN R
    ELSE LET R1 == [R EXCEPT
                      !.history = setShapes(@, [fn |-> "align", mode |-> mode,
                                                ids |-> cl.selectedIds,
                                                stageSize |-> cl.stageSize], FALSE)]
         IN  IF idx = 0 THEN R1 ELSE LogAI(R1, idx)

(***************************************************************************)
(* App.tsx: handleExecuteAIActions                                         *)
(***************************************************************************)
\* action.shapeId, action.shapeType: a non-empty string
Str(action, name) == Has(action, name) /\ action[name] # ""

\* setTimeout(() => f(), 100)
setTimeout(R, callback) == [R EXCEPT !.timers = Append(@, callback)]

\* the tests that guard the cases of the switch
CreateOk(action) == Str(action, "shapeType") /\ Has(action, "properties")
UpdateOk(action) == Str(action, "shapeId") /\ Has(action, "properties")
DeleteOk(action) == Str(action, "shapeId")
\* a group case that accepts a single target
GroupOk_one(action) == Has(action, "targetIds") /\ Len(action.targetIds) >= 1
GroupOk(action) == Has(action, "targetIds") /\ Len(action.targetIds) >= 2
UngroupOk(action) == Str(action, "shapeId")
AlignOk(action) ==
    /\ Has(action, "targetIds")
    /\ Has(action, "properties")
    /\ Str(action.properties, "direction")

\* the body of response.actions.forEach: one action of the batch
execAction(R, cl, action, idx) ==
    CASE action.type = "create" ->
            IF CreateOk(action)
            THEN LET id == Uuid(R.nextId + 1)
                     newShape == Spread([id |-> id, type |-> action.shapeType,
                                         draggable |-> TRUE],
                                        action.properties)
                 IN  LogSelect(LogAI(
                         [R EXCEPT !.nextId = @ + 1,
                                   !.history = setShapes(@, [fn |-> "append",
                                                             shape |-> newShape], FALSE),
                                   !.selectedIds = <<id>>], idx), idx)
            ELSE R
      [] action.type \in {"modify", "recolor", "resize", "move"} ->
            IF UpdateOk(action)
            THEN LogAI([R EXCEPT !.history =
                           updateShape(@, action.shapeId, action.properties)], idx)
            ELSE R
      [] action.type = "delete" ->
            IF DeleteOk(action)
            THEN LogSelect(LogAI(
                     [R EXCEPT !.history = setShapes(@, [fn |-> "removeId",
                                                         id |-> action.shapeId], FALSE),
                               !.selectedIds = <<>>], idx), idx)
            ELSE R
      [] action.type = "group" ->
            IF GroupOk(action)
            THEN setTimeout(
                     LogSelect([R EXCEPT !.selectedIds = action.targetIds], idx),
                     [fn |-> "groupSelected", cl |-> cl, idx |-> idx])
            ELSE R
      [] action.type = "ungroup" ->
            IF UngroupOk(action)
            THEN setTimeout(
                     LogSelect([R EXCEPT !.selectedIds = <<action.shapeId>>], idx),
                     [fn |-> "ungroupSelected", cl |-> cl, idx |-> idx])
            ELSE R
      [] action.type = "align" ->
            IF AlignOk(action)
            THEN setTimeout(
                     LogSelect([R EXCEPT !.selectedIds = action.targetIds], idx),
                     [fn |-> "alignSelected", mode |-> action.properties.direction,
                      cl |-> cl, idx |-> idx])
            ELSE R
      [] OTHER -> R

RECURSIVE forEach(_, _, _, _)
forEach(R, cl, actions, idx) ==
    IF idx > Len(actions)
    THEN R
    ELSE forEach(execAction(R, cl, actions[idx], idx), cl, actions, idx + 1)

\* handleExecuteAIActions(response); cl: the render its callbacks close over
handleExecuteAIActions(R, cl, response) ==
    IF ~response.success \/ Len(response.actions) = 0
    THEN R
    ELSE forEach(R, cl, response.actions, 1)

\* the callback at the head of the timer queue runs
runTimer(R) ==
    LET t == Head(R.timers)
        R1 == [R EXCEPT !.timers = Tail(@)]
    IN  IF ~Mounted(R.history)
        THEN R1
        ELSE CASE t.fn = "groupSelected"   -> groupSelected(R1, t.cl, t.idx)
               [] t.fn = "ungroupSelected" -> ungroupSelected(R1, t.cl, t.idx)
               [] t.fn = "alignSelected"   -> alignSelected(R1, t.cl, t.mode, t.idx)

(***************************************************************************)
(* App.tsx: getBBox, routeConnector                                        *)
(*                                                                         *)
(* Coordinates are integers.  The code halves widths and heights and       *)
(* divides by the number of gaps; the shapes of the model have even sizes  *)
(* and positions that make these divisions exact, so \div is the quotient. *)
(***************************************************************************)
\* (s as any).width || 0
Num(s, f) == IF Has(s, f) THEN s[f] ELSE 0

Abs(v) == IF v < 0 THEN 0 - v ELSE v

getBBox(s) ==
    IF s.type = "circle"
    THEN [x |-> s.x - s.radius, y |-> s.y - s.radius,
          w |-> s.radius * 2, h |-> s.radius * 2]
    ELSE [x |-> s.x, y |-> s.y, w |-> Num(s, "width"), h |-> Num(s, "height")]

\* a routeConnector that always bends at (end.x, start.y)
routeConnector_flat(from, to) ==
    LET A == getBBox(from)
        B == getBBox(to)
    IN  <<A.x + A.w \div 2, A.y + A.h \div 2, B.x + B.w \div 2, A.y + A.h \div 2,
          B.x + B.w \div 2, B.y + B.h \div 2>>

\* a routeConnector that compares the signed dx with |dy|
routeConnector_signed(from, to) ==
    LET A == getBBox(from)
        B == getBBox(to)
        centerA == [x |-> A.x + A.w \div 2, y |-> A.y + A.h \div 2]
        centerB == [x |-> B.x + B.w \div 2, y |-> B.y + B.h \div 2]
        horizontalFirst == centerA.x - centerB.x > Abs(centerA.y - centerB.y)
        via1 == IF horizontalFirst THEN [x |-> centerB.x, y |-> centerA.y]
                                   ELSE [x |-> centerA.x, y |-> centerB.y]
    IN  <<centerA.x, centerA.y, via1.x, via1.y, centerB.x, centerB.y>>

routeConnector(from, to) ==
    LET A == getBBox(from)
        B == getBBox(to)
        centerA == [x |-> A.x + A.w \div 2, y |-> A.y + A.h \div 2]
        centerB == [x |-> B.x + B.w \div 2, y |-> B.y + B.h \div 2]
        horizontalFirst == Abs(centerA.x - centerB.x) > Abs(centerA.y - centerB.y)
        start == centerA
        end == centerB
        via1 == IF horizontalFirst THEN [x |-> end.x, y |-> start.y]
                                   ELSE [x |-> start.x, y |-> end.y]
    IN  <<start.x, start.y, via1.x, via1.y, end.x, end.y>>

\* q.findIndex(e => e.id === id) given the ids of q's elements: the first
\* index that holds id, 0 when none does (the code's -1)
FindIndex(ids, id) ==
    IF \E i \in DOMAIN ids : ids[i] = id
    THEN CHOOSE i \in DOMAIN ids : ids[i] = id /\ \A j \in 1..(i - 1) : ids[j] # id
    ELSE 0

\* [it] = copy.splice(i, 1); copy.splice(j, 0, it), with 1-based i and j
Move(q, i, j) ==
    LET without == SubSeq(q, 1, i - 1) \o SubSeq(q, i + 1, Len(q))
    IN  SubSeq(without, 1, j - 1) \o <<q[i]>> \o SubSeq(without, j, Len(without))

(***************************************************************************)
(* App.tsx: z-order, distribute, connectSelected                           *)
(***************************************************************************)
\* the forEach of bringForward's updater, from the k-th selected id on
RECURSIVE StepForward(_, _, _)
StepForward(copy, ids, k) ==
    IF k > Len(ids)
    THEN copy
    ELSE LET idx == FindIndex([i \in DOMAIN copy |-> copy[i].id], ids[k])
         IN  StepForward(IF idx # 0 /\ idx < Len(copy)
                         THEN Move(copy, idx, idx + 1)
                         ELSE copy,
                         ids, k + 1)

\* the forEach of sendBackward's updater
RECURSIVE StepBackward(_, _, _)
StepBackward(copy, ids, k) ==
    IF k > Len(ids)
    THEN copy
    ELSE LET idx == FindIndex([i \in DOMAIN copy |-> copy[i].id], ids[k])
         IN  StepBackward(IF idx > 1 THEN Move(copy, idx, idx - 1) ELSE copy,
                          ids, k + 1)

\* the four z-order handlers; each passes setShapes an updater over s
bringForward(R, cl) ==
    IF cl.selectedIds = <<>>
    THEN R
    ELSE [R EXCEPT !.history =
             setShapes(@, [fn |-> "forward", ids |-> cl.selectedIds], FALSE)]

bringToFront(R, cl) ==
    IF cl.selectedIds = <<>>
    THEN R
    ELSE [R EXCEPT !.history =
             setShapes(@, [fn |-> "front", ids |-> cl.selectedIds], FALSE)]

sendBackward(R, cl) ==
    IF cl.selectedIds = <<>>
    THEN R
    ELSE [R EXCEPT !.history =
             setShapes(@, [fn |-> "backward", ids |-> cl.selectedIds], FALSE)]

sendToBack(R, cl) ==
    IF cl.selectedIds = <<>>
    THEN R
    ELSE [R EXCEPT !.history =
             setShapes(@, [fn |-> "back", ids |-> cl.selectedIds], FALSE)]

RECURSIVE SumSeq(_)
SumSeq(q) == IF q = <<>> THEN 0 ELSE Head(q) + SumSeq(Tail(q))

\* the coordinate and the extent of a box on the axis
Near(b, axis) == IF axis = "h" THEN b.x ELSE b.y
Size(b, axis) == IF axis = "h" THEN b.w ELSE b.h

\* boxes.sort((a, b) => a.x - b.x) or by y: a stable sort
SortBoxes(boxes, axis) ==
    LET Rank(i) ==
            1 + Cardinality({j \in DOMAIN boxes :
                    \/ Near(boxes[j], axis) < Near(boxes[i], axis)
                    \/ Near(boxes[j], axis) = Near(boxes[i], axis) /\ j < i})
    IN  [r \in DOMAIN boxes |-> boxes[CHOOSE i \in DOMAIN boxes : Rank(i) = r]]

\* distribute(axis)
distribute(R, cl, axis) ==
    LET selected == SelectSeq(cl.shapes, LAMBDA sh : sh.id \in SeqToSet(cl.selectedIds))
        boxes == [i \in DOMAIN selected |-> Spread([s |-> selected[i]], getBBox(selected[i]))]
        sorted == SortBoxes(boxes, axis)
        first == sorted[1]
        lastBox == sorted[Len(sorted)]
        span == Near(lastBox, axis) - Near(first, axis)
        sizes == [i \in DOMAIN sorted |-> Size(sorted[i], axis)]
        totalSize == SumSeq(sizes)
        gaps == (span - (totalSize - Size(first, axis))) \div (Len(sorted) - 1)
    IN  IF Len(selected) < 3
        THEN R
        ELSE [R EXCEPT !.history =
                 setShapes(@, [fn |-> "distribute", axis |-> axis,
                               sorted |-> sorted, gaps |-> gaps], FALSE)]

\* connectSelected
connectSelected(R, cl) ==
    IF Len(cl.selectedIds) # 2
    THEN R
    ELSE LET a == cl.selectedIds[1]
             b == cl.selectedIds[2]
             from == SelectSeq(cl.shapes, LAMBDA sh : sh.id = a)
             to == SelectSeq(cl.shapes, LAMBDA sh : sh.id = b)
         IN  IF from = <<>> \/ to = <<>>
             THEN R
             ELSE LET id == Uuid(R.nextId + 1)
                      connector == [id |-> id, type |-> "connector", fromId |-> a,
                                    toId |-> b,
                                    points |-> routeConnector(from[1], to[1]),
                                    stroke |-> "#0f172a", strokeWidth |-> 2]
                  IN  [R EXCEPT !.nextId = @ + 1,
                                !.history = setConnectors(@, [fn |-> "connect",
                                                              connector |-> connector],
                                                          FALSE)]

(***************************************************************************)
(* App.tsx: the keyboard handler (duplicate, nudge), onTransformEnd and    *)
(* the X and Y inputs of the inspector                                     *)
(***************************************************************************)
\* Ctrl/Cmd+D on a selection; the updater it passes would call uuidv4 for
\* each copy and then refreshConnectors
duplicate(R, cl) ==
    IF cl.selectedIds = <<>>
    THEN R
    ELSE [R EXCEPT !.history =
             setShapes(@, [fn |-> "duplicate", ids |-> cl.selectedIds,
                           first |-> R.nextId + 1], FALSE)]

\* an arrow key on a selection; the updater it passes would call
\* refreshConnectors
nudge(R, cl, key, shiftKey) ==
    LET step == IF shiftKey THEN R.gridSize ELSE 2
        dx == IF key = "ArrowLeft" THEN 0 - step ELSE IF key = "ArrowRight" THEN step ELSE 0
        dy == IF key = "ArrowUp" THEN 0 - step ELSE IF key = "ArrowDown" THEN step ELSE 0
    IN  IF cl.selectedIds = <<>>
        THEN R
        ELSE [R EXCEPT !.history =
                 setShapes(@, [fn |-> "nudge", ids |-> cl.selectedIds,
                               dx |-> dx, dy |-> dy], FALSE)]

\* onTransformEnd of shape s, the transformed node being at (node.x, node.y),
\* rotated by node.rotation and scaled by node.scaleX and node.scaleY
onTransformEnd(R, cl, s, node) ==
    LET Snapped(v) == snap(v, R.snapEnabled, R.gridSize)
        Scaled(v) == MathMax({5, Snapped(v)})
        base == [x |-> Snapped(node.x), y |-> Snapped(node.y), rotation |-> node.rotation]
        attrs ==
            IF s.type \in {"rect", "image"}
            THEN Spread(base, [width |-> Scaled(Num(s, "width") * node.scaleX),
                               height |-> Scaled(Num(s, "height") * node.scaleY)])
            ELSE IF s.type = "circle"
            THEN Spread(base, [radius |-> Scaled(s.radius * node.scaleX)])
            ELSE base
    IN  [R EXCEPT !.history =
            refreshConnectors(updateShape(@, s.id, attrs),
                              MapShape(cl.shapes, s.id, attrs))]

\* onChange of the X or the Y input of the inspector, shown while one shape
\* is selected
onChange(R, cl, field, value) ==
    LET active == SelectSeq(cl.shapes, LAMBDA sh : sh.id = cl.selectedIds[1])
    IN  IF Len(cl.selectedIds) # 1 \/ active = <<>>
        THEN R
        ELSE [R EXCEPT !.history =
                 updateShape(@, active[1].id,
                             IF field = "x" THEN [x |-> value] ELSE [y |-> value])]

(***************************************************************************)
(* App.tsx: the bodies of the functions the handlers pass to setShapes and *)
(* setConnectors, as functions of the list they are given                  *)
(***************************************************************************)
\* {...sh, groupId: undefined}: reading groupId then yields undefined, as it
\* does on an object without the field
Without(r, f) == [g \in DOMAIN r \ {f} |-> r[g]]

\* the attrs alignSelected computes for shape sh
AlignAttrs(sh, mode, size) ==
    CASE mode = "left"    -> [x |-> 10]
      [] mode = "right"   -> [x |-> IF Num(sh, "width") # 0
                                    THEN size.width - sh.width - 10
                                    ELSE size.width - 10]
      [] mode = "top"     -> [y |-> 10]
      [] mode = "bottom"  -> [y |-> IF Num(sh, "height") # 0
                                    THEN size.height - sh.height - 10
                                    ELSE size.height - 10]
      [] mode = "hcenter" -> [x |-> MathMax({0, (size.width - Num(sh, "width")) \div 2})]
      [] mode = "vcenter" -> [y |-> MathMax({0, (size.height - Num(sh, "height")) \div 2})]
      [] OTHER            -> << >>

\* the position distribute's updater gives the box at index idx of sorted
DistributePos(sorted, axis, gaps, idx) ==
    Near(sorted[1], axis) + Size(sorted[1], axis)
      + SumSeq([i \in 1..(idx - 2) |-> Size(sorted[i + 1], axis) + gaps])

\* updater(prev.shapes) for the updater u given to setShapes
ApplyShapes(u, s) ==
    CASE u.fn = "append"   -> Append(s, u.shape)
      [] u.fn = "update"   -> MapShape(s, u.id, u.attrs)
      [] u.fn = "remove"   -> SelectSeq(s, LAMBDA sh : sh.id \notin SeqToSet(u.ids))
      [] u.fn = "removeId" -> SelectSeq(s, LAMBDA sh : sh.id # u.id)
      [] u.fn = "forward"  -> StepForward(s, u.ids, 1)
      [] u.fn = "backward" -> StepBackward(s, u.ids, 1)
      [] u.fn = "front"    ->
            SelectSeq(s, LAMBDA sh : sh.id \notin SeqToSet(u.ids))
              \o SelectSeq(s, LAMBDA sh : sh.id \in SeqToSet(u.ids))
      [] u.fn = "back"     ->
            SelectSeq(s, LAMBDA sh : sh.id \in SeqToSet(u.ids))
              \o SelectSeq(s, LAMBDA sh : sh.id \notin SeqToSet(u.ids))
      [] u.fn = "group"    ->
            Append([i \in DOMAIN s |->
                       IF s[i].id \in SeqToSet(u.ids)
                       THEN Spread(s[i], [groupId |-> u.groupId])
                       ELSE s[i]],
                   u.group)
      [] u.fn = "ungroup"  ->
            LET kept == SelectSeq(s, LAMBDA sh : sh.id # u.id)
            IN  [i \in DOMAIN kept |->
                    IF kept[i].id \in SeqToSet(u.ids)
                    THEN Without(kept[i], "groupId")
                    ELSE kept[i]]
      [] u.fn = "align"    ->
            [i \in DOMAIN s |->
                IF s[i].id \in SeqToSet(u.ids)
                THEN Spread(s[i], AlignAttrs(s[i], u.mode, u.stageSize))
                ELSE s[i]]
      [] u.fn = "duplicate" ->
            LET ids == [i \in DOMAIN s |-> s[i].id]
                found == SelectSeq(u.ids, LAMBDA id : FindIndex(ids, id) # 0)
            IN  s \o [k \in DOMAIN found |->
                        LET orig == s[FindIndex(ids, found[k])]
                        IN  Spread(orig, [id |-> Uuid(u.first + k - 1),
                                          x |-> Num(orig, "x") + 20,
                                          y |-> Num(orig, "y") + 20])]
      [] u.fn = "nudge"    ->
            [i \in DOMAIN s |->
                IF s[i].id \in SeqToSet(u.ids)
                THEN Spread(s[i], [x |-> s[i].x + u.dx, y |-> s[i].y + u.dy])
                ELSE s[i]]
      [] u.fn = "distribute" ->
            [i \in DOMAIN s |->
                LET idx == FindIndex([k \in DOMAIN u.sorted |-> u.sorted[k].s.id], s[i].id)
                IN  IF idx = 0 \/ idx = 1 \/ idx = Len(u.sorted)
                    THEN s[i]
                    ELSE Spread(s[i],
                           IF u.axis = "h"
                           THEN [x |-> DistributePos(u.sorted, u.axis, u.gaps, idx)]
                           ELSE [y |-> DistributePos(u.sorted, u.axis, u.gaps, idx)])]

\* curr.map(c => ...) of refreshConnectors
Reroute(curr, nextShapes) ==
    [i \in DOMAIN curr |->
        LET from == SelectSeq(nextShapes, LAMBDA sh : sh.id = curr[i].fromId)
            to == SelectSeq(nextShapes, LAMBDA sh : sh.id = curr[i].toId)
        IN  IF from = <<>> \/ to = <<>>
            THEN curr[i]
            ELSE Spread(curr[i], [points |-> routeConnector(from[1], to[1])])]

\* updater(prev.connectors) for the updater u given to setConnectors
ApplyConnectors(u, cs) ==
    CASE u.fn = "removeLinked" ->
            SelectSeq(cs, LAMBDA c : c.fromId \notin SeqToSet(u.ids)
                                     /\ c.toId \notin SeqToSet(u.ids))
      [] u.fn = "refresh" -> Reroute(cs, u.nextShapes)
      [] u.fn = "connect" -> Append(cs, u.connector)

\* what the last handler handed to setCanvasState, call by call (while below
\* the depth limit)
Calls ==
    IF history = pre.history
    THEN <<>>
    ELSE SubSeq(history.past, Len(pre.history.past) + 2, Len(history.past))
           \o <<history.present>>

\* the canvas state a call makes of state once its function is applied: the
\* return value of the function setShapes or setConnectors wraps the updater
\* in, and, for an updater that calls refreshConnectors on the list it
\* returns, that refresh applied next
RunCall(c, state) ==
    IF IsCanvasState(c)
    THEN c
    ELSE IF c.closure = "setConnectors"
    THEN [state EXCEPT !.connectors = ApplyConnectors(c.updater, @)]
    ELSE LET next == ApplyShapes(c.updater, state.shapes)
         IN  [shapes |-> next,
              connectors |-> IF c.updater.fn \in {"align", "distribute", "nudge", "duplicate"}
                             THEN Reroute(state.connectors, next)
                             ELSE state.connectors]

RECURSIVE RunCalls(_, _)
RunCalls(calls, state) ==
    IF calls = <<>> THEN state ELSE RunCalls(Tail(calls), RunCall(Head(calls), state))

(***************************************************************************)
(* App.tsx: the marquee handlers of the Stage                              *)
(***************************************************************************)
\* useState(false), useState(null), useRef(null): no marquee being dragged
NoMarquee == [isSelecting |-> FALSE, selRect |-> <<>>, selStart |-> <<>>]

\* onMouseDown with the pointer at pos, on the empty stage or on a shape
onMouseDown(R, pos, clickedOnEmpty) ==
    IF ~clickedOnEmpty
    THEN R
    ELSE [R EXCEPT
            !.marquee = [isSelecting |-> TRUE, selStart |-> <<pos>>,
                         selRect |-> <<[x |-> pos.x, y |-> pos.y, w |-> 0, h |-> 0]>>],
            !.selectedIds = <<>>]

\* onMouseMove with the pointer at pos
onMouseMove(R, pos) ==
    IF ~R.marquee.isSelecting \/ R.marquee.selStart = <<>>
    THEN R
    ELSE LET start == R.marquee.selStart[1]
         IN  [R EXCEPT !.marquee.selRect =
                 <<[x |-> MathMin({start.x, pos.x}), y |-> MathMin({start.y, pos.y}),
                    w |-> Abs(pos.x - start.x), h |-> Abs(pos.y - start.y)]>>]

\* a filter that takes every shape the rectangle touches
Inside_touching(sh, selRect) ==
    LET b == getBBox(sh)
    IN  /\ b.x <= selRect.x + selRect.w
        /\ b.y <= selRect.y + selRect.h
        /\ b.x + b.w >= selRect.x
        /\ b.y + b.h >= selRect.y

\* the filter of onMouseUp
Inside(sh, selRect) ==
    LET b == getBBox(sh)
    IN  /\ b.x >= selRect.x
        /\ b.y >= selRect.y
        /\ b.x + b.w <= selRect.x + selRect.w
        /\ b.y + b.h <= selRect.y + selRect.h

\* onMouseUp
onMouseUp(R, cl) ==
    LET hit == SelectSeq(cl.shapes, LAMBDA sh : Inside(sh, R.marquee.selRect[1]))
        R1 == IF R.marquee.isSelecting /\ R.marquee.selRect # <<>>
              THEN [R EXCEPT !.selectedIds = [i \in DOMAIN hit |-> hit[i].id]]
              ELSE R
    IN  [R1 EXCEPT !.marquee = NoMarquee]

(***************************************************************************)
(* utils/svgExport.ts                                                      *)
(*                                                                         *)
(* A JavaScript string that is escaped, matched or searched is a sequence  *)
(* of one-character strings.  The SVG text is a sequence of parts: a part  *)
(* [lit |-> ...] is text of a template of the code, [num |-> n] is         *)
(* formatNumber(n) (the numbers of the model are integers, which           *)
(* formatNumber leaves as they are), and [attr, of, val] is the text val   *)
(* that the code made of the stored string of, put where attr says.        *)
(***************************************************************************)
UpperCaseLetters == <<"A", "B", "C", "D", "E", "F", "G", "H", "I", "J", "K", "L", "M", "N", "O", "P", "Q", "R", "S", "T", "U", "V", "W", "X", "Y", "Z">>
LowerCaseLetters == <<"a", "b", "c", "d", "e", "f", "g", "h", "i", "j", "k", "l", "m", "n", "o", "p", "q", "r", "s", "t", "u", "v", "w", "x", "y", "z">>
Digits == <<"0", "1", "2", "3", "4", "5", "6", "7", "8", "9">>
WhiteSpace == {" ", "\t", "\n"}

\* str.startsWith(prefix)
startsWith(str, prefix) ==
    Len(prefix) <= Len(str) /\ SubSeq(str, 1, Len(prefix)) = prefix

\* str.includes(sub)
includes(str, sub) ==
    \E i \in 1..(Len(str) - Len(sub) + 1) : SubSeq(str, i, i + Len(sub) - 1) = sub

\* str.toLowerCase()
toLowerCase(str) ==
    [i \in DOMAIN str |->
        IF \E k \in DOMAIN UpperCaseLetters : UpperCaseLetters[k] = str[i]
        THEN LowerCaseLetters[CHOOSE k \in DOMAIN UpperCaseLetters :
                                  UpperCaseLetters[k] = str[i]]
        ELSE str[i]]

\* str.trim()
trim(str) ==
    LET solid == {i \in DOMAIN str : str[i] \notin WhiteSpace}
    IN  IF solid = {}
        THEN <<>>
        ELSE SubSeq(str, CHOOSE i \in solid : \A j \in solid : i <= j,
                         CHOOSE i \in solid : \A j \in solid : i >= j)

\* escapeXML(str): the five replacements, & first, come to one pass that
\* replaces each character by its entity
escapeXML(str) ==
    LET Entity(c) ==
            CASE c = "&"  -> <<"&", "a", "m", "p", ";">>
              [] c = "<"  -> <<"&", "l", "t", ";">>
              [] c = ">"  -> <<"&", "g", "t", ";">>
              [] c = "\"" -> <<"&", "q", "u", "o", "t", ";">>
              [] c = "'"  -> <<"&", "a", "p", "o", "s", ";">>
              [] OTHER    -> <<c>>
        RECURSIVE Esc(_)
        Esc(s) == IF s = <<>> THEN <<>> ELSE Entity(Head(s)) \o Esc(Tail(s))
    IN  Esc(str)

\* sanitizeURL(url)
sanitizeURL(url) ==
    IF url = <<>>
    THEN <<>>
    ELSE LET lowercaseURL == trim(toLowerCase(url))
         IN  IF \/ startsWith(lowercaseURL, <<"j", "a", "v", "a", "s", "c", "r", "i", "p", "t", ":">>)
                \/ startsWith(lowercaseURL, <<"d", "a", "t", "a", ":", "t", "e", "x", "t", "/", "h", "t", "m", "l">>)
                \/ startsWith(lowercaseURL, <<"v", "b", "s", "c", "r", "i", "p", "t", ":">>)
             THEN <<>>
             ELSE escapeXML(url)

\* the decimal number a run of digits writes: parseInt(run, 10)
RECURSIVE parseInt(_)
parseInt(run) ==
    IF run = <<>>
    THEN 0
    ELSE 10 * parseInt(SubSeq(run, 1, Len(run) - 1))
           + (CHOOSE k \in DOMAIN Digits : Digits[k] = run[Len(run)]) - 1

\* n.toString(16).padStart(2, '0')
RECURSIVE toString16(_)
toString16(n) ==
    LET hex == Digits \o <<"a", "b", "c", "d", "e", "f">>
        RECURSIVE Str16(_)
        Str16(m) == IF m < 16 THEN <<hex[m + 1]>> ELSE Str16(m \div 16) \o <<hex[(m % 16) + 1]>>
    IN  IF n < 16 THEN <<"0">> \o Str16(n) ELSE Str16(n)

\* color.match(/\d+/g): the maximal runs of digits, in order
RECURSIVE matchDigits(_)
matchDigits(str) ==
    IF str = <<>>
    THEN <<>>
    ELSE IF \E k \in DOMAIN Digits : Digits[k] = Head(str)
         THEN LET rest == {i \in DOMAIN str : \A k \in DOMAIN Digits : Digits[k] # str[i]}
                  n == IF rest = {} THEN Len(str)
                       ELSE (CHOOSE i \in rest : \A j \in rest : i <= j) - 1
              IN  <<SubSeq(str, 1, n)>> \o matchDigits(SubSeq(str, n + 1, Len(str)))
         ELSE matchDigits(Tail(str))

\* normalizeColor(color); <<>> stands for undefined and for ''
normalizeColor(color) ==
    IF color = <<>>
    THEN <<"n", "o", "n", "e">>
    ELSE IF startsWith(color, <<"#">>)
         THEN color
         ELSE LET match == matchDigits(color)
              IN  IF startsWith(color, <<"r", "g", "b">>) /\ Len(match) >= 3
                  THEN <<"#">> \o toString16(parseInt(match[1]))
                              \o toString16(parseInt(match[2]))
                              \o toString16(parseInt(match[3]))
                  ELSE escapeXML(color)

\* line.match(/on\w+=/i) on a text: "on" in either case, one or more word
\* characters, "="
matchHandler(str) ==
    LET word(c) ==
            \/ \E k \in DOMAIN Digits : Digits[k] = c
            \/ \E k \in DOMAIN LowerCaseLetters :
                  c = LowerCaseLetters[k] \/ c = UpperCaseLetters[k]
            \/ c = "_"
    IN  \E i, j \in DOMAIN str :
           /\ i + 2 < j
           /\ toLowerCase(SubSeq(str, i, i + 1)) = <<"o", "n">>
           /\ \A k \in (i + 2)..(j - 1) : word(str[k])
           /\ str[j] = "="

\* the text of the parts of a line that come from stored strings.  The text
\* of the templates holds none of '<script', 'javascript:' and /on\w+=/, and
\* every stored string stands between two of the characters " > <, which
\* no match can span: a line matches exactly when one of these texts does.
StoredTexts(line) == {line[i].val : i \in {k \in DOMAIN line : Has(line[k], "val")}}

\* createSVG(options, content); content is a sequence of lines, a line a
\* sequence of parts
createSVG(options, content) ==
    LET L(t) == [lit |-> t]
        N(n) == [num |-> n]
        indent == IF options.prettify THEN <<L("  ")>> ELSE <<>>
        newline == IF options.prettify THEN <<L("\n")>> ELSE <<>>
        background == options.background
        blocked(line) ==
            /\ options.sanitize
            /\ \E t \in StoredTexts(line) :
                  \/ includes(t, <<"<", "s", "c", "r", "i", "p", "t">>)
                  \/ includes(t, <<"j", "a", "v", "a", "s", "c", "r", "i", "p", "t", ":">>)
                  \/ matchHandler(t)
        RECURSIVE Main(_)
        Main(lines) ==
            IF lines = <<>>
            THEN <<>>
            ELSE (IF blocked(Head(lines)) THEN <<>> ELSE indent \o Head(lines) \o newline)
                   \o Main(Tail(lines))
    IN  <<L("<?xml version=\"1.0\" encoding=\"UTF-8\"?>")>> \o newline
        \o <<L("<svg xmlns=\"http://www.w3.org/2000/svg\" xmlns:xlink=\"http://www.w3.org/1999/xlink\" width=\""),
             N(options.width), L("\" height=\""), N(options.height), L("\" viewBox=\"0 0 "),
             N(options.width), L(" "), N(options.height), L("\" version=\"1.1\">")>>
        \o newline
        \o (IF options.includeMetadata
            THEN indent \o <<L("<title>FigureLab Export</title>")>> \o newline
                 \o indent \o <<L("<desc>Created with FigureLab - "), L("new Date().toISOString()"),
                                L("</desc>")>> \o newline
            ELSE <<>>)
        \o indent \o <<L("<defs>")>> \o newline
        \o indent \o indent
        \o <<L("<marker id=\"arrowhead\" markerWidth=\"10\" markerHeight=\"10\" refX=\"9\" refY=\"3\" orient=\"auto\" markerUnits=\"strokeWidth\">")>>
        \o newline
        \o indent \o indent \o indent
        \o <<L("<path d=\"M0,0 L0,6 L9,3 z\" fill=\"context-stroke\"/>")>> \o newline
        \o indent \o indent \o <<L("</marker>")>> \o newline
        \o indent \o <<L("</defs>")>> \o newline
        \o (IF background # <<>> /\ background # <<"t", "r", "a", "n", "s", "p", "a", "r", "e", "n", "t">> /\ background # <<"n", "o", "n", "e">>
            THEN indent
                 \o <<L("<rect x=\"0\" y=\"0\" width=\""), N(options.width), L("\" height=\""),
                      N(options.height), L("\" fill=\""),
                      [attr |-> "background", of |-> background,
                       val |-> normalizeColor(background)],
                      L("\"/>")>>
                 \o newline
            ELSE <<>>)
        \o Main(content)
        \o <<L("</svg>")>>

\* optimizeSVG(svg) on the parts of an SVG text made without prettify: the
\* templates are written with single spaces, none next to "=" or before
\* "/>" or between two tags, so the four replacements change the stored
\* texts only, and a text between ">" and "<" that is white space vanishes
optimizeSVG(svg) ==
    LET Keep(str, ok(_)) ==
            LET idx == SelectSeq([i \in DOMAIN str |-> i], ok)
            IN  [k \in DOMAIN idx |-> str[idx[k]]]
        at(str, i) == IF i \in DOMAIN str THEN str[i] ELSE ""
        \* .replace(/\s+/g, ' ')
        spaces(str) ==
            LET one == [i \in DOMAIN str |-> IF str[i] \in WhiteSpace THEN " " ELSE str[i]]
            IN  Keep(one, LAMBDA i : ~(one[i] = " " /\ at(one, i - 1) = " "))
        \* .replace(/\s*=\s*/g, '=')
        equals(str) ==
            Keep(str, LAMBDA i : ~(str[i] = " " /\ (at(str, i - 1) = "=" \/ at(str, i + 1) = "=")))
        \* .replace(/\s*\/>/g, '/>')
        closing(str) ==
            Keep(str, LAMBDA i : ~(str[i] = " " /\ at(str, i + 1) = "/" /\ at(str, i + 2) = ">"))
        \* .replace(/>\s+</g, '><')
        between(str, before, after) ==
            LET whole == <<before>> \o str \o <<after>>
                kept == Keep(whole, LAMBDA i : ~(whole[i] = " " /\ at(whole, i - 1) = ">"
                                                   /\ at(whole, i + 1) = "<"))
            IN  SubSeq(kept, 2, Len(kept) - 1)
    IN  [i \in DOMAIN svg |->
            IF Has(svg[i], "val")
            THEN [svg[i] EXCEPT !.val =
                     between(closing(equals(spaces(@))),
                             IF svg[i].attr = "text" THEN ">" ELSE "\"",
                             IF svg[i].attr = "text" THEN "<" ELSE "\"")]
            ELSE svg[i]]

\* a stored string: <<>> when the field is missing
Stored(s, f) == IF Has(s, f) THEN s[f] ELSE <<>>

\* the line exportSVG_Native pushes for shape s, if it pushes one.  The
\* shapes of the model have no opacity below 1: opacityAttr is "".
shapeLines(s) ==
    LET L(t) == [lit |-> t]
        N(n) == [num |-> n]
        Or(n, d) == IF n # 0 THEN n ELSE d
        color(attr, c) == [attr |-> attr, of |-> c, val |-> normalizeColor(c)]
        rot == Num(s, "rotation")
        transform ==
            IF rot # 0
            THEN <<L(" transform=\"rotate("), N(rot), L(" "), N(s.x), L(" "), N(s.y), L(")\"")>>
            ELSE <<>>
        strokeAttr ==
            IF Stored(s, "stroke") # <<>>
            THEN <<L(" stroke=\""), color("stroke", s.stroke), L("\" stroke-width=\""),
                   N(Or(Num(s, "strokeWidth"), 1)), L("\"")>>
            ELSE <<>>
        fillAttr ==
            IF Stored(s, "fill") # <<>>
            THEN <<L(" fill=\""), color("fill", s.fill), L("\"")>>
            ELSE <<L(" fill=\"none\"")>>
        polyline(marker) ==
            <<L("<polyline points=\""), [nums |-> s.points], L("\" fill=\"none\" stroke=\""),
              color("stroke", IF Stored(s, "stroke") # <<>> THEN s.stroke ELSE <<"#", "0", "0", "0">>),
              L("\" stroke-width=\""), N(Or(Num(s, "strokeWidth"), 1)), L("\"")>>
            \o marker \o transform \o <<L("/>")>>
    IN  CASE s.type = "rect" ->
               <<<<L("<rect x=\""), N(s.x), L("\" y=\""), N(s.y), L("\" width=\""),
                   N(Num(s, "width")), L("\" height=\""), N(Num(s, "height")),
                   L("\" rx=\""), N(Num(s, "cornerRadius")), L("\"")>>
                 \o fillAttr \o strokeAttr \o transform \o <<L("/>")>>>>
          [] s.type = "circle" ->
               <<<<L("<circle cx=\""), N(s.x), L("\" cy=\""), N(s.y), L("\" r=\""),
                   N(s.radius), L("\"")>>
                 \o fillAttr \o strokeAttr \o transform \o <<L("/>")>>>>
          [] s.type = "text" ->
               <<<<L("<text x=\""), N(s.x), L("\" y=\""),
                   N(s.y + Or(Num(s, "fontSize"), 24)), L("\" font-size=\""),
                   N(Or(Num(s, "fontSize"), 24)), L("\" fill=\""),
                   color("fill", IF Stored(s, "fill") # <<>> THEN s.fill ELSE <<"#", "0", "f", "1", "7", "2", "a">>),
                   L("\"")>>
                 \o (IF Has(s, "align")
                     THEN <<L(" text-anchor=\""),
                            L(IF s.align = "center" THEN "middle"
                              ELSE IF s.align = "right" THEN "end" ELSE "start"),
                            L("\"")>>
                     ELSE <<>>)
                 \o transform
                 \o <<L(">"), [attr |-> "text", of |-> Stored(s, "text"),
                                val |-> escapeXML(Stored(s, "text"))],
                      L("</text>")>>>>
          [] s.type = "line" -> <<polyline(<<>>)>>
          [] s.type = "arrow" -> <<polyline(<<L(" marker-end=\"url(#arrowhead)\"")>>)>>
          [] s.type = "image" ->
               LET safeSrc == sanitizeURL(Stored(s, "src"))
               IN  IF safeSrc # <<>>
                   THEN <<<<L("<image href=\""),
                            [attr |-> "href", of |-> s.src, val |-> safeSrc],
                            L("\" x=\""), N(s.x), L("\" y=\""), N(s.y), L("\" width=\""),
                            N(Or(Num(s, "width"), 300)), L("\" height=\""),
                            N(Or(Num(s, "height"), 200)), L("\"")>>
                          \o transform \o <<L("/>")>>>>
                   ELSE <<>>
          [] s.type = "group" ->
               <<<<L("<rect x=\""), N(s.x), L("\" y=\""), N(s.y), L("\" width=\""),
                   N(Or(Num(s, "width"), 100)), L("\" height=\""),
                   N(Or(Num(s, "height"), 100)),
                   L("\" fill=\"rgba(59, 130, 246, 0.05)\" stroke=\"#94a3b8\" stroke-width=\"1\" stroke-dasharray=\"8,4\"")>>
                 \o transform \o <<L("/>")>>>>
          [] OTHER -> <<>>

\* exportSVG_Native(optimized), up to the text handed to downloadSVG
exportSVG_Native(shapes, connectors, size, background, optimized) ==
    LET L(t) == [lit |-> t]
        RECURSIVE Shapes(_)
        Shapes(ss) ==
            IF ss = <<>>
            THEN <<>>
            ELSE (IF Has(Head(ss), "groupId") THEN <<>> ELSE shapeLines(Head(ss)))
                   \o Shapes(Tail(ss))
        connector(c) ==
            LET stroke == IF Stored(c, "stroke") # <<>> THEN c.stroke ELSE <<"#", "0", "f", "1", "7", "2", "a">>
            IN  <<L("<polyline points=\""), [nums |-> c.points], L("\" fill=\"none\" stroke=\""),
                  [attr |-> "stroke", of |-> stroke, val |-> normalizeColor(stroke)],
                  L("\" stroke-width=\""),
                  [num |-> IF Num(c, "strokeWidth") # 0 THEN c.strokeWidth ELSE 2],
                  L("\" marker-end=\"url(#arrowhead)\"/>")>>
        content == Shapes(shapes) \o [i \in DOMAIN connectors |-> connector(connectors[i])]
        svg == createSVG([width |-> size.width, height |-> size.height,
                          background |-> background, includeMetadata |-> TRUE,
                          prettify |-> ~optimized, sanitize |-> TRUE], content)
    IN  IF optimized THEN optimizeSVG(svg) ELSE svg

(***************************************************************************)
(* services/aiService.ts and components/ConversationalAI.tsx               *)
(*                                                                         *)
(* A fetch outcome is [kind |-> "reject", message] when fetch rejects, or  *)
(* [kind |-> "response", ok, statusText, body] where body is what          *)
(* response.json() yields: [valid |-> FALSE] when it rejects, else         *)
(* [valid |-> TRUE, value |-> the parsed value].                           *)
(***************************************************************************)
\* the object processCommand returns from its catch block
ErrorResponse(message) ==
    JObj([success |-> JBool(FALSE), actions |-> JArr(<<>>),
          error |-> JStr(IF message # "" THEN message
                         ELSE "Failed to connect to AI service.")])

\* a processCommand that returns the body of a non-OK response
processCommand_anyStatus(outcome) ==
    IF outcome.kind = "reject"
    THEN ErrorResponse(outcome.message)
    ELSE IF ~outcome.body.valid
         THEN ErrorResponse("Unexpected end of JSON input")
         ELSE outcome.body.value

\* AIService.processCommand: what the promise resolves to
processCommand(outcome) ==
    IF outcome.kind = "reject"
    THEN ErrorResponse(outcome.message)
    ELSE IF ~outcome.ok
         THEN LET error == IF outcome.body.valid
                           THEN outcome.body.value
                           ELSE JObj([message |-> JStr(outcome.statusText)])
              IN  IF error.t \in {"null", "undefined"}
                  THEN ErrorResponse("Cannot read properties of null")
                  ELSE IF Truthy(Get(error, "message"))
                       THEN ErrorResponse(Get(error, "message").str)
                       ELSE ErrorResponse("API request failed: " \o outcome.statusText)
         ELSE IF ~outcome.body.valid
              THEN ErrorResponse("Unexpected end of JSON input")
              ELSE outcome.body.value

\* setMessages(prev => [...prev, message])
Say(R, role, content) ==
    [R EXCEPT !.chat.messages = Append(@, [role |-> role, content |-> content])]

\* handleSend up to its await: input is the text typed, cl the render the
\* handler belongs to: it reads the isProcessing of that render, and holds
\* the App's handleExecuteAIActions of that render as onExecuteActions
handleSend(R, cl, input) ==
    IF input = "" \/ cl.isProcessing
    THEN R
    ELSE [Say(R, "user", input) EXCEPT
            !.chat.isProcessing = TRUE,
            !.chat.pending = Append(@, [input |-> input, cl |-> cl])]

\* the catch and finally blocks of handleSend
SendFailed(R, message) ==
    [Say(R, "assistant",
         "Sorry, I encountered an error: " \o message \o ". Please try again.")
       EXCEPT !.chat.isProcessing = FALSE]

\* handleSend from its await on, the fetch having had the given outcome
handleSendResume(R, outcome) ==
    LET request == Head(R.chat.pending)
        R0 == [R EXCEPT !.chat.pending = Tail(@)]
        response == processCommand(outcome)
    IN  IF ~Mounted(R.history)
        THEN R0
        ELSE IF response.t \in {"null", "undefined"}
        THEN SendFailed(R0, "Cannot read properties of null")
        ELSE LET content == IF Truthy(Get(response, "message"))
                            THEN Get(response, "message").str
                            ELSE "I've made the changes you requested."
                 R1 == Say(R0, "assistant", content)
                 actions == Get(response, "actions")
             IN  IF ~Truthy(Get(response, "success"))
                 THEN [R1 EXCEPT !.chat.isProcessing = FALSE]
                 ELSE IF actions.t # "array"
                 THEN SendFailed(R1, "Cannot read properties of undefined")
                 ELSE IF Len(actions.arr) > 0
                 THEN [handleExecuteAIActions(R1, request.cl,
                           [success |-> TRUE, actions |-> actions.arr])
                         EXCEPT !.chat.isProcessing = FALSE]
                 ELSE [R1 EXCEPT !.chat.isProcessing = FALSE]

(***************************************************************************)
(* Bounds of the model                                                     *)
(***************************************************************************)
MaxSteps == 4       \* handlers run in one behaviour of SpecHistory
NumVals == 2        \* distinct new values handed to setState and reset
MaxFuture == 1      \* depth of the redo stack in an initial history
MaxSmallN == 2      \* round trips of 0..MaxSmallN operations
MaxOver == 2        \* round trips of up to MAX_HISTORY_LENGTH + MaxOver operations

\* the i-th new value; the values already in a history are 1, 2, ...
NewVal(i) == 0 - i
Vals == {NewVal(i) : i \in 1..NumVals}

\* The history after k + f setState calls (values 2, 3, ...) on useHistory(1)
\* followed by f undo calls.
Filled(k, f) ==
    [past    |-> [i \in 1..k |-> i],
     present |-> k + 1,
     future  |-> [i \in 1..f |-> k + 1 + i]]

InitDepths == {0, MAX_HISTORY_LENGTH - 1, MAX_HISTORY_LENGTH}

InitHistories ==
    {Filled(k, f) : <<k, f>> \in
        {kf \in InitDepths \X (0..MaxFuture) : kf[1] + kf[2] <= MAX_HISTORY_LENGTH}}

NoGesture == [active |-> FALSE, ended |-> FALSE, id |-> "", k |-> 0, grow |-> 0]
NoRoundTrip == [phase |-> "none"]

NoCalc == [fn |-> "none"]

\* ConversationalAI: the welcome message, nothing being processed
NoChat ==
    [messages |-> <<[role |-> "system", content |-> "Welcome to FigureLab!"]>>,
     isProcessing |-> FALSE, pending |-> <<>>]

\* App(): the initial values of the component's useState and useHistory calls
Fresh ==
    [history |-> [past |-> <<>>, present |-> [shapes |-> <<>>, connectors |-> <<>>],
                  future |-> <<>>],
     selectedIds |-> <<>>, bg |-> "#ffffff",
     stageSize |-> [width |-> 1200, height |-> 800],
     showGrid |-> TRUE, gridSize |-> 20, snapEnabled |-> TRUE,
     alerts |-> "", timers |-> <<>>, nextId |-> 0, chat |-> NoChat,
     marquee |-> NoMarquee, fx |-> <<>>]

AppInit ==
    /\ selectedIds = Fresh.selectedIds
    /\ bg = Fresh.bg
    /\ stageSize = Fresh.stageSize
    /\ showGrid = Fresh.showGrid
    /\ gridSize = Fresh.gridSize
    /\ snapEnabled = Fresh.snapEnabled
    /\ alerts = Fresh.alerts
    /\ timers = Fresh.timers
    /\ nextId = Fresh.nextId
    /\ chat = Fresh.chat
    /\ marquee = Fresh.marquee
    /\ calc = NoCalc
    /\ gesture = NoGesture
    /\ fx = Fresh.fx
    /\ batches = 0

(***************************************************************************)
(* SpecHistory: the five callbacks of the hook in any order                *)
(***************************************************************************)
InitHistory ==
    /\ history \in InitHistories
    /\ AppInit
    /\ pre = history
    /\ last = [op |-> "init"]
    /\ steps = 0
    /\ rt = NoRoundTrip

HStep(op, h) ==
    /\ steps < MaxSteps
    /\ history' = h
    /\ pre' = history
    /\ last' = op
    /\ steps' = steps + 1
    /\ UNCHANGED <<appVars, rt, calc>>

HSetState ==
    \E v \in Vals, skipHistory \in BOOLEAN :
        HStep([op |-> "setState", arg |-> v, skip |-> skipHistory],
              setState(history, v, skipHistory))

HUndo == HStep([op |-> "undo"], undo(history))

HRedo == HStep([op |-> "redo"], redo(history))

HReset == \E v \in Vals : HStep([op |-> "reset", arg |-> v], reset(history, v))

HClearHistory == HStep([op |-> "clearHistory"], clearHistory(history))

NextHistory == HSetState \/ HUndo \/ HRedo \/ HReset \/ HClearHistory

SpecHistory == InitHistory /\ [][NextHistory]_vars

(***************************************************************************)
(* SpecRoundTrip: N setState(v, false), then N undo, then N redo           *)
(***************************************************************************)
RoundTripNs ==
    (0..MaxSmallN) \cup ((MAX_HISTORY_LENGTH - 1)..(MAX_HISTORY_LENGTH + MaxOver))

InitRoundTrip ==
    /\ history \in InitHistories
    /\ AppInit
    /\ pre = history
    /\ last = [op |-> "init"]
    /\ steps = 0
    /\ \E n \in RoundTripNs :
          rt = [phase |-> IF n = 0 THEN "done" ELSE "set", n |-> n, i |-> 0,
                start |-> history, afterSets |-> history]

RTStep(op, h, phase) ==
    /\ history' = h
    /\ pre' = history
    /\ last' = op
    /\ rt' = IF rt.i + 1 = rt.n
             THEN [rt EXCEPT !.phase = phase, !.i = 0,
                             !.afterSets = IF rt.phase = "set" THEN h ELSE @]
             ELSE [rt EXCEPT !.i = @ + 1]
    /\ UNCHANGED <<appVars, steps, calc>>

RTSetState ==
    /\ rt.phase = "set"
    /\ RTStep([op |-> "setState", arg |-> NewVal(rt.i + 1), skip |-> FALSE],
              setState(history, NewVal(rt.i + 1), FALSE), "undo")

RTUndo ==
    /\ rt.phase = "undo"
    /\ RTStep([op |-> "undo"], undo(history), "redo")

RTRedo ==
    /\ rt.phase = "redo"
    /\ RTStep([op |-> "redo"], redo(history), "done")

NextRoundTrip == RTSetState \/ RTUndo \/ RTRedo

SpecRoundTrip == InitRoundTrip /\ [][NextRoundTrip]_vars

(***************************************************************************)
(* Spec: the App component.  Inputs of the handlers.                       *)
(***************************************************************************)
MaxBatch == 2       \* actions in one AI response
MaxMoves == 2       \* drag-move events in one gesture
MaxSends == 2       \* requests sent from the chat panel

RectA == [id |-> "a", type |-> "rect", x |-> 100, y |-> 100, width |-> 240, height |-> 140]
CircleB == [id |-> "b", type |-> "circle", x |-> 300, y |-> 300, radius |-> 80]
GroupG == [id |-> "g", type |-> "group", x |-> 100, y |-> 100, width |-> 280,
           height |-> 280, children |-> <<"a", "b">>]
ConnAB == [id |-> "k", type |-> "connector", fromId |-> "a", toId |-> "b",
           points |-> <<220, 170, 220, 300, 300, 300>>]

\* a drawing of four shapes of three kinds and sizes, with three connectors
BoxR == [id |-> "r", type |-> "rect", x |-> 0, y |-> 0, width |-> 50, height |-> 50]
TextT == [id |-> "t", type |-> "text", x |-> 120, y |-> 36, text |-> "label"]
CircleC == [id |-> "c", type |-> "circle", x |-> 300, y |-> 120, radius |-> 42]
RectQ == [id |-> "q", type |-> "rect", x |-> 480, y |-> 240, width |-> 120, height |-> 60]

Link(id, from, to) ==
    [id |-> id, type |-> "connector", fromId |-> from.id, toId |-> to.id,
     points |-> routeConnector(from, to)]

Drawing ==
    [valid |-> TRUE, value |->
        JObj([__shapes |-> JArr(<<BoxR, TextT, CircleC, RectQ>>),
              __connectors |-> JArr(<<Link("k1", BoxR, CircleC), Link("k2", TextT, RectQ),
                                      Link("k3", RectQ, BoxR)>>)])]

\* the project files the user may pick
Files ==
    { [valid |-> FALSE],
      [valid |-> TRUE, value |-> JNull],
      [valid |-> TRUE, value |-> JObj([version |-> JNum(3)])],
      [valid |-> TRUE, value |->
          JObj([__shapes |-> JStr("none"),
                __connectors |-> JArr(<<ConnAB>>),
                __bg |-> JStr("#000000"),
                __size |-> JObj([width |-> JNum(800), height |-> JNum(600)]),
                __grid |-> JObj([showGrid |-> JBool(FALSE), gridSize |-> JNum(10),
                                 snapEnabled |-> JBool(FALSE)])])],
      [valid |-> TRUE, value |-> JObj([__shapes |-> JArr(<<>>)])],
      [valid |-> TRUE, value |->
          JObj([__shapes |-> JArr(<<RectA, CircleB>>),
                __connectors |-> JArr(<<ConnAB>>),
                __bg |-> JStr("#000000"),
                __size |-> JObj([width |-> JNum(800), height |-> JNum(600)]),
                __grid |-> JObj([showGrid |-> JBool(FALSE), gridSize |-> JNum(10),
                                 snapEnabled |-> JBool(FALSE)])])],
      [valid |-> TRUE, value |->
          JObj([__shapes |-> JArr(<<Spread(RectA, [groupId |-> "g"]),
                                    Spread(CircleB, [groupId |-> "g"]), GroupG>>),
                __connectors |-> JNull])] }

\* where a dragged node may be when the event fires
DragTargets == {<<130, 50>>, <<304, 296>>}

\* where the pointer may be when a marquee starts and when it moves
MarqueeStarts == {[x |-> 0, y |-> 0]}
MarqueeEnds == {[x |-> 40, y |-> 40], [x |-> 60, y |-> 60], [x |-> 400, y |-> 200]}

\* the arrow keys
ArrowKeys == {"ArrowUp", "ArrowDown", "ArrowLeft", "ArrowRight"}

\* where a transformed node may be, and how it may be rotated and scaled
TransformedNodes ==
    {[x |-> 40, y |-> 20, rotation |-> 0, scaleX |-> 2, scaleY |-> 1],
     [x |-> 0, y |-> 0, rotation |-> 90, scaleX |-> 0, scaleY |-> 3]}

\* the numbers typed into the inspector
InspectorValues == {0, 250}

\* single edits of the AI on a shape of a project file
AIEdits ==
    { [type |-> "move", shapeId |-> "a", properties |-> [x |-> 150, y |-> 100]],
      [type |-> "resize", shapeId |-> "r", properties |-> [width |-> 80, height |-> 20]],
      [type |-> "modify", shapeId |-> "b", properties |-> [radius |-> 40]],
      [type |-> "delete", shapeId |-> "a"],
      [type |-> "delete", shapeId |-> "g"],
      [type |-> "delete", shapeId |-> "r"] }

AlignModes == {"left", "right", "top", "bottom", "hcenter", "vcenter"}

\* the edit actions an AI response may hold: one well-formed action of each
\* kind, and actions that lack a required field
AIActions ==
    { [type |-> "create", shapeType |-> "rect",
       properties |-> [x |-> 20, y |-> 20, width |-> 40, height |-> 40]],
      [type |-> "create", properties |-> [x |-> 20, y |-> 20]],
      [type |-> "create", shapeType |-> "circle"],
      [type |-> "move", shapeId |-> "a", properties |-> [x |-> 150, y |-> 100]],
      [type |-> "resize", shapeId |-> "a"],
      [type |-> "recolor", properties |-> [x |-> 150, y |-> 100]],
      [type |-> "delete", shapeId |-> "a"],
      [type |-> "delete"],
      [type |-> "group", targetIds |-> <<"a", "b">>],
      [type |-> "group", targetIds |-> <<"a">>],
      [type |-> "ungroup", shapeId |-> "g"],
      [type |-> "ungroup", shapeId |-> ""],
      [type |-> "align", targetIds |-> <<"b">>, properties |-> [direction |-> "left"]],
      [type |-> "align", properties |-> [direction |-> "left"]],
      [type |-> "align", targetIds |-> <<"b">>, properties |-> [x |-> 150, y |-> 100]] }

Batches == UNION {[1..n -> AIActions] : n \in 0..MaxBatch}

Responses ==
    {[success |-> TRUE, actions |-> b] : b \in Batches}
    \cup {[success |-> FALSE, actions |-> b] : b \in [1..1 -> AIActions]}

\* what the user may have typed when the send event fires
Inputs == {"", "add a box"}

\* bodies the backend may answer with
NewBox ==
    [type |-> "create", shapeType |-> "rect",
     properties |-> [x |-> 20, y |-> 20, width |-> 40, height |-> 40]]
Bodies ==
    { [valid |-> FALSE],
      [valid |-> TRUE, value |-> JNull],
      [valid |-> TRUE, value |->
          JObj([success |-> JBool(FALSE), actions |-> JArr(<<NewBox>>),
                error |-> JStr("quota exceeded")])],
      [valid |-> TRUE, value |-> JObj([success |-> JBool(TRUE), actions |-> JArr(<<>>)])],
      [valid |-> TRUE, value |-> JObj([success |-> JBool(TRUE)])],
      [valid |-> TRUE, value |->
          JObj([success |-> JBool(TRUE), actions |-> JArr(<<NewBox>>),
                message |-> JStr("Added a box")])],
      [valid |-> TRUE, value |->
          JObj([success |-> JBool(TRUE),
                actions |-> JArr(<<[type |-> "group", targetIds |-> <<"a", "b">>]>>)])] }

\* how the fetch of processCommand may end
FetchOutcomes ==
    {[kind |-> "reject", message |-> "Failed to fetch"]}
    \cup {[kind |-> "response", ok |-> ok, statusText |-> IF ok THEN "OK" ELSE "Bad Gateway",
           body |-> body] : ok \in BOOLEAN, body \in Bodies}

(***************************************************************************)
(* Spec: the handlers as actions                                           *)
(***************************************************************************)
Init ==
    /\ history = useHistory(EmptyCanvas)
    /\ AppInit
    /\ pre = Now
    /\ last = [op |-> "init"]
    /\ steps = 0
    /\ rt = NoRoundTrip

\* a handler starts with no alert showing
Start == [Now EXCEPT !.alerts = ""]

Commit(op, R, g) ==
    /\ history' = R.history
    /\ selectedIds' = R.selectedIds
    /\ bg' = R.bg
    /\ stageSize' = R.stageSize
    /\ showGrid' = R.showGrid
    /\ gridSize' = R.gridSize
    /\ snapEnabled' = R.snapEnabled
    /\ alerts' = R.alerts
    /\ timers' = R.timers
    /\ nextId' = R.nextId
    /\ chat' = R.chat
    /\ marquee' = R.marquee
    /\ fx' = R.fx
    /\ pre' = Now
    /\ last' = op
    /\ gesture' = g
    /\ batches' = batches + (IF op.op \in {"ai", "resume"} THEN 1 ELSE 0)
    /\ UNCHANGED <<steps, rt, calc>>

ShapeIds == {history.present.shapes[i].id : i \in DOMAIN history.present.shapes}

LoadJSON ==
    /\ Mounted(history)
    /\ \E file \in Files :
          Commit([op |-> "loadJSON", file |-> file], loadJSON(Start, file), gesture)

Click ==
    /\ Mounted(history)
    /\ \E id \in ShapeIds, multi \in BOOLEAN :
          Commit([op |-> "click"], onClick(Start, id, multi), gesture)

\* the Snap checkbox: setSnapEnabled(e.target.checked)
SetSnapEnabled ==
    /\ Mounted(history)
    /\ Commit([op |-> "setSnapEnabled"], [Start EXCEPT !.snapEnabled = ~@], gesture)

AddRect ==
    /\ Mounted(history)
    /\ Commit([op |-> "addRect"], addRect(LogManual(Start)), gesture)

\* the Delete button (disabled on an empty selection) and the Delete key
DeleteSelected ==
    /\ Mounted(history)
    /\ selectedIds # <<>>
    /\ Commit([op |-> "deleteSelected"],
              deleteSelected(LogManual(Start), Closure(Now)), gesture)

Grown(R) == Len(R.history.past) - Len(history.past)

DragMove ==
    /\ Mounted(history)
    /\ \E id \in ShapeIds, at \in DragTargets :
          /\ gesture.active => (gesture.id = id /\ gesture.k < MaxMoves)
          /\ LET R == onDragMove(Start, Closure(Now), id, at[1], at[2])
                 R1 == IF R.history = history THEN R ELSE LogManual(R)
             IN  Commit([op |-> "dragMove"], R1,
                        [active |-> TRUE, ended |-> FALSE, id |-> id,
                         k |-> (IF gesture.active THEN gesture.k ELSE 0) + 1,
                         grow |-> (IF gesture.active THEN gesture.grow ELSE 0) + Grown(R)])

DragEnd ==
    /\ Mounted(history)
    /\ \E id \in ShapeIds, at \in DragTargets :
          /\ gesture.active => gesture.id = id
          /\ LET R == onDragEnd(LogManual(Start), Closure(Now), id, at[1], at[2])
             IN  Commit([op |-> "dragEnd"], R,
                        [active |-> FALSE, ended |-> TRUE, id |-> id,
                         k |-> IF gesture.active THEN gesture.k ELSE 0,
                         grow |-> (IF gesture.active THEN gesture.grow ELSE 0) + Grown(R)])

\* onExecuteActions(response), called by the chat panel once the request
\* resolved; the timers of an earlier batch have fired by then
AIExecute ==
    /\ Mounted(history)
    /\ timers = <<>>
    /\ \E response \in Responses :
          Commit([op |-> "ai", response |-> response],
                 handleExecuteAIActions([Start EXCEPT !.fx = <<>>], Closure(Now), response),
                 gesture)

TimerFire ==
    /\ timers # <<>>
    /\ Commit([op |-> "timer"], runTimer(Start), gesture)

\* the four z-order buttons
ZOrder ==
    /\ Mounted(history)
    /\ \/ Commit([op |-> "bringForward"],
                 bringForward(LogManual(Start), Closure(Now)), gesture)
       \/ Commit([op |-> "bringToFront"],
                 bringToFront(LogManual(Start), Closure(Now)), gesture)
       \/ Commit([op |-> "sendBackward"],
                 sendBackward(LogManual(Start), Closure(Now)), gesture)
       \/ Commit([op |-> "sendToBack"],
                 sendToBack(LogManual(Start), Closure(Now)), gesture)

GroupSelected ==
    /\ Mounted(history)
    /\ Commit([op |-> "groupSelected"],
              groupSelected(LogManual(Start), Closure(Now), 0), gesture)

UngroupSelected ==
    /\ Mounted(history)
    /\ Commit([op |-> "ungroupSelected"],
              ungroupSelected(LogManual(Start), Closure(Now), 0), gesture)

AlignSelected ==
    /\ Mounted(history)
    /\ \E mode \in AlignModes :
          Commit([op |-> "alignSelected", mode |-> mode],
                 alignSelected(LogManual(Start), Closure(Now), mode, 0), gesture)

Distribute ==
    /\ Mounted(history)
    /\ \E axis \in {"h", "v"} :
          Commit([op |-> "distribute", axis |-> axis],
                 distribute(LogManual(Start), Closure(Now), axis), gesture)

ConnectSelected ==
    /\ Mounted(history)
    /\ Commit([op |-> "connectSelected"],
              connectSelected(LogManual(Start), Closure(Now)), gesture)

\* Ctrl/Cmd+D
Duplicate ==
    /\ Mounted(history)
    /\ Commit([op |-> "duplicate"], duplicate(LogManual(Start), Closure(Now)), gesture)

\* the arrow keys, with and without Shift
Nudge ==
    /\ Mounted(history)
    /\ \E key \in ArrowKeys, shiftKey \in BOOLEAN :
          Commit([op |-> "nudge", key |-> key],
                 nudge(LogManual(Start), Closure(Now), key, shiftKey), gesture)

\* the user lets go of a handle of the transformer
TransformEnd ==
    /\ Mounted(history)
    /\ \E i \in DOMAIN history.present.shapes, node \in TransformedNodes :
          Commit([op |-> "transformEnd", id |-> history.present.shapes[i].id],
                 onTransformEnd(LogManual(Start), Closure(Now),
                                history.present.shapes[i], node), gesture)

\* the user types a number into the X or the Y input of the inspector
InspectorEdit ==
    /\ Mounted(history)
    /\ \E field \in {"x", "y"}, value \in InspectorValues :
          Commit([op |-> "inspector", field |-> field],
                 onChange(LogManual(Start), Closure(Now), field, value), gesture)

\* onExecuteActions(response) for a response that holds one edit
AIEdit ==
    /\ Mounted(history)
    /\ timers = <<>>
    /\ \E action \in AIEdits :
          LET response == [success |-> TRUE, actions |-> <<action>>]
          IN  Commit([op |-> "ai", response |-> response],
                     handleExecuteAIActions([Start EXCEPT !.fx = <<>>], Closure(Now), response),
                     gesture)

MouseDown ==
    /\ Mounted(history)
    /\ \E pos \in MarqueeStarts, clickedOnEmpty \in BOOLEAN :
          Commit([op |-> "mouseDown"], onMouseDown(Start, pos, clickedOnEmpty), gesture)

MouseMove ==
    /\ Mounted(history)
    /\ marquee.isSelecting
    /\ \E pos \in MarqueeEnds :
          Commit([op |-> "mouseMove"], onMouseMove(Start, pos), gesture)

MouseUp ==
    /\ Mounted(history)
    /\ Commit([op |-> "mouseUp"], onMouseUp(Start, Closure(Now)), gesture)

Next ==
    \/ LoadJSON
    \/ Click
    \/ SetSnapEnabled
    \/ AddRect
    \/ DeleteSelected
    \/ DragMove
    \/ DragEnd

Spec == Init /\ [][Next]_vars

(***************************************************************************)
(* SpecAI: one AI response executed in a state the editor can be in, the   *)
(* timers it sets, and a manual edit                                       *)
(***************************************************************************)
\* The states the batch may arrive in: the fresh editor, and the editor
\* after loading a project file and clicking shapes (reachable under Spec).
AISelections == {<<>>, <<"a">>, <<"a", "b">>, <<"g">>}

ProjectFiles ==
    {f \in Files : f.valid /\ Get(f.value, "__shapes").t = "array"}

InitAI ==
    /\ \E loaded \in BOOLEAN, file \in ProjectFiles, sel \in AISelections :
          LET R == IF loaded THEN loadJSON(Fresh, file) ELSE Fresh
              ids == {R.history.present.shapes[i].id :
                         i \in DOMAIN R.history.present.shapes}
          IN  /\ SeqToSet(sel) \subseteq ids
              /\ history = R.history
              /\ selectedIds = sel
              /\ bg = R.bg
              /\ stageSize = R.stageSize
              /\ showGrid = R.showGrid
              /\ gridSize = R.gridSize
              /\ snapEnabled = R.snapEnabled
    /\ alerts = ""
    /\ timers = <<>>
    /\ nextId = 0
    /\ chat = NoChat
    /\ marquee = NoMarquee
    /\ calc = NoCalc
    /\ gesture = NoGesture
    /\ fx = <<>>
    /\ batches = 0
    /\ pre = Now
    /\ last = [op |-> "init"]
    /\ steps = 0
    /\ rt = NoRoundTrip

\* one response in a behaviour
AIBatch ==
    /\ batches = 0
    /\ Len(chat.messages) = 1
    /\ AIExecute

\* the user sends the text typed into the chat panel
Sent == Len(SelectSeq(chat.messages, LAMBDA m : m.role = "user"))

AISend ==
    /\ Mounted(history)
    /\ Sent < MaxSends
    /\ \E input \in Inputs :
          Commit([op |-> "send", input |-> input],
                 handleSend(Start, Closure(Now), input), gesture)

\* a second send event (Enter, or a click on the button) that fires before
\* the panel has re-rendered after the first: it runs the handleSend of the
\* render the first one ran in, which holds the same input and isProcessing
AISendEarly ==
    /\ Mounted(history)
    /\ last.op = "send"
    /\ Sent < MaxSends
    /\ Commit([op |-> "send", input |-> last.input, early |-> TRUE],
              handleSend(Start, Closure(pre), last.input), gesture)

\* the request in flight comes back
AIResume ==
    /\ chat.pending # <<>>
    /\ timers = <<>>
    /\ \E outcome \in FetchOutcomes :
          Commit([op |-> "resume", outcome |-> outcome],
                 handleSendResume([Start EXCEPT !.fx = <<>>], outcome), gesture)

NextAI ==
    \/ AIBatch
    \/ AISend
    \/ AISendEarly
    \/ AIResume
    \/ TimerFire
    \/ DeleteSelected

SpecAI == InitAI /\ [][NextAI]_vars

(***************************************************************************)
(* SpecEdit: the editing handlers run by hand on a loaded project with any *)
(* selection the user can click together (reachable under Spec)            *)
(***************************************************************************)
EditFiles == ProjectFiles \cup {Drawing}

\* the selections shift-clicking builds: ids without repetition, in any order
Selections(ids) ==
    {q \in UNION {[1..n -> ids] : n \in 0..Cardinality(ids)} :
        \A i, j \in DOMAIN q : i # j => q[i] # q[j]}

InitEdit ==
    /\ \E file \in EditFiles :
          LET R == loadJSON(Fresh, file)
              ids == {R.history.present.shapes[i].id :
                         i \in DOMAIN R.history.present.shapes}
          IN  /\ history = R.history
              /\ selectedIds \in Selections(ids)
              /\ bg = R.bg
              /\ stageSize = R.stageSize
              /\ showGrid = R.showGrid
              /\ gridSize = R.gridSize
              /\ snapEnabled = R.snapEnabled
    /\ alerts = ""
    /\ timers = <<>>
    /\ nextId = 0
    /\ chat = NoChat
    /\ marquee = NoMarquee
    /\ calc = NoCalc
    /\ gesture = NoGesture
    /\ fx = <<>>
    /\ batches = 0
    /\ pre = Now
    /\ last = [op |-> "init"]
    /\ steps = 0
    /\ rt = NoRoundTrip

NextEdit ==
    \/ AddRect
    \/ DeleteSelected
    \/ ZOrder
    \/ GroupSelected
    \/ UngroupSelected
    \/ AlignSelected
    \/ Distribute
    \/ ConnectSelected
    \/ Duplicate
    \/ Nudge
    \/ DragEnd
    \/ TransformEnd
    \/ InspectorEdit
    \/ AIEdit
    \/ MouseDown
    \/ MouseMove
    \/ MouseUp

SpecEdit == InitEdit /\ [][NextEdit]_vars

\* the URLs, texts and colours a project file or an AI action may put in the
\* store: any string
ExportURLs ==
    { <<"j", "a", "v", "a", "s", "c", "r", "i", "p", "t", ":", "a", "l", "e", "r", "t", "(",
        "1", ")">>,
      <<" ", "J", "a", "v", "a", "S", "c", "r", "i", "p", "t", ":", "a", "l", "e", "r", "t",
        "(", "1", ")">>,
      <<"d", "a", "t", "a", ":", "t", "e", "x", "t", "/", "h", "t", "m", "l", ",", "<", "b",
        ">">>,
      <<"V", "B", "S", "c", "r", "i", "p", "t", ":", "x">>,
      <<"p", "i", "c", ".", "p", "n", "g">>,
      <<"a", ".", "p", "n", "g", "?", "x", "=", "1", "&", "y", "=", "\"", "2", "\"">>,
      <<"h", "t", "t", "p", "s", ":", "/", "/", "a", ".", "i", "o", "/", "p", "?", "c", "o",
        "n", "d", "i", "t", "i", "o", "n", "=", "n", "e", "w">>,
      <<"a", " ", " ", "b", ".", "p", "n", "g">>,
      <<>>,
      <<"d", "a", "t", "a", ":", "i", "m", "a", "g", "e", "/", "p", "n", "g", ",", "A",
        "A">> }

ExportTexts ==
    { <<"l", "a", "b", "e", "l">>,
      <<"a", "<", "b", ">", " ", "&", " ", "\"", "c", "\"", " ", "'", "d", "'">>,
      <<"c", "o", "n", "f", "i", "g", "=", "1">> }

ExportColors ==
    { <<"#", "f", "8", "f", "a", "f", "c">>,
      <<"r", "e", "d">>,
      <<"r", "g", "b", "(", "2", "5", "5", ",", " ", "0", ",", " ", "1", "0", ")">>,
      <<"#", "\"", "/", ">", "<", "a", ">">>,
      <<"\"", ">", "<", "b", ">">> }

ExportBackgrounds ==
    { <<"#", "f", "f", "f", "f", "f", "f">>,
      <<"#", "\"", ">", "<", "a", ">">>,
      <<"t", "r", "a", "n", "s", "p", "a", "r", "e", "n", "t">>,
      <<"w", "h", "i", "t", "e">> }

\* the shapes exported: an image per URL, a text per text, a rectangle per
\* fill and per stroke, a text and a line with a colour, a shape in a group
ExportShapes ==
    {[id |-> "i", type |-> "image", x |-> 40, y |-> 60, src |-> u] : u \in ExportURLs}
    \cup {[id |-> "t", type |-> "text", x |-> 120, y |-> 36, text |-> t] : t \in ExportTexts}
    \cup {[id |-> "r", type |-> "rect", x |-> 0, y |-> 0, width |-> 50, height |-> 50,
           fill |-> c] : c \in ExportColors}
    \cup {[id |-> "s", type |-> "rect", x |-> 0, y |-> 0, width |-> 50, height |-> 50,
           rotation |-> 90, stroke |-> c] : c \in ExportColors}
    \cup {[id |-> "w", type |-> "text", x |-> 120, y |-> 36, text |-> <<"l", "a", "b", "e", "l">>,
           align |-> "center", fill |-> c] : c \in ExportColors}
    \cup {[id |-> "l", type |-> "arrow", x |-> 0, y |-> 0, points |-> <<0, 0, 80, 0>>,
           stroke |-> c] : c \in ExportColors}
    \cup {[id |-> "m", type |-> "image", x |-> 40, y |-> 60, src |-> <<"p", "i", "c", ".", "p", "n", "g">>, groupId |-> "g"],
          GroupG, CircleB}

\* the shape lists exported: one shape, or a circle and one shape
ExportDocs == {<<s>> : s \in ExportShapes} \cup {<<CircleB, s>> : s \in ExportShapes}

\* the connector lists exported
ExportLinks ==
    {<<>>} \cup {<<[id |-> "k", type |-> "connector", fromId |-> "b", toId |-> "b",
                   points |-> <<300, 300, 300, 300, 300, 300>>, stroke |-> c]>> :
                    c \in ExportColors}

(***************************************************************************)
(* SpecGeometry: routeConnector applied to any two shapes of a set that    *)
(* holds every kind of shape, shapes without width and height, equal       *)
(* centres, and centres as far apart in x as in y                          *)
(***************************************************************************)
GeoShapes ==
    {RectA, CircleB, GroupG, BoxR, TextT, CircleC, RectQ,
     [id |-> "i", type |-> "image", x |-> 40, y |-> 60, src |-> "pic.png"],
     [id |-> "l", type |-> "line", x |-> 0, y |-> 0, points |-> <<0, 0, 80, 0>>]}
    \cup {[id |-> "p", type |-> "rect", x |-> x, y |-> y, width |-> 40, height |-> 20] :
            x \in {200, 280}, y \in {160, 240}}
    \cup {[id |-> "o", type |-> "circle", x |-> 300, y |-> y, radius |-> 10] :
            y \in {250, 380}}

InitGeometry ==
    /\ history = useHistory(EmptyCanvas)
    /\ AppInit
    /\ pre = Now
    /\ last = [op |-> "init"]
    /\ steps = 0
    /\ rt = NoRoundTrip

Route ==
    /\ \E from \in GeoShapes, to \in GeoShapes :
          calc' = [fn |-> "routeConnector", from |-> from, to |-> to,
                   points |-> routeConnector(from, to),
                   back |-> routeConnector(to, from)]
    /\ UNCHANGED <<history, appVars, pre, last, steps, rt>>

NextGeometry == Route

SpecGeometry == InitGeometry /\ [][NextGeometry]_vars

(***************************************************************************)
(* SpecExport: the SVG button pressed on any of the drawings of ExportDocs *)
(***************************************************************************)
\* onClick={exportSVG_Native}: the click event is the argument optimized,
\* which is truthy; one export in a behaviour
ExportSVG ==
    /\ calc = NoCalc
    /\ \E shapes \in ExportDocs, links \in ExportLinks, background \in ExportBackgrounds :
          calc' = [fn |-> "exportSVG_Native", shapes |-> shapes, connectors |-> links,
                   bg |-> background,
                   svg |-> exportSVG_Native(shapes, links, stageSize, background, TRUE)]
    /\ UNCHANGED <<history, appVars, pre, last, steps, rt>>

SpecExport == InitGeometry /\ [][ExportSVG]_vars

(***************************************************************************)
(* Claims about the hook                                                   *)
(***************************************************************************)

\* C1: N setState(v_i, false) calls, then N undo calls, then N redo calls,
\* from any history and for any N (also above MAX_HISTORY_LENGTH), end with
\* present = v_N and an empty future: the history is exactly the one the
\* N-th setState left.  With N = 0 there is no N-th value and nothing ran:
\* the history is the starting one.
C1_RoundTrip ==
    rt.phase = "done" =>
        IF rt.n = 0
        THEN history = rt.start
        ELSE /\ history.present = NewVal(rt.n)
             /\ history.future = <<>>
             /\ history = rt.afterSets

C1_Witness ==
    /\ rt.phase = "done"
    /\ rt.n > MAX_HISTORY_LENGTH
    /\ Len(rt.start.past) = MAX_HISTORY_LENGTH - 1
    /\ rt.start.future # <<>>

\* C2: after a setState with skipHistory = false the redo stack is empty,
\* canRedo is false and redo changes nothing, whatever came before.
C2_EditClearsFuture ==
    (last.op = "setState" /\ ~last.skip) =>
        /\ history.future = <<>>
        /\ ~canRedo(history)
        /\ redo(history) = history

C2_Witness ==
    /\ last.op = "setState"
    /\ ~last.skip
    /\ pre.future # <<>>
    /\ steps >= 2

\* C3: past never holds more than MAX_HISTORY_LENGTH entries, and a
\* non-skipped setState on a full past drops exactly the oldest entry and
\* keeps the others in order, with the old present appended.
C3_PastBounded ==
    /\ Len(history.past) <= MAX_HISTORY_LENGTH
    /\ (last.op = "setState" /\ ~last.skip /\ Len(pre.past) = MAX_HISTORY_LENGTH) =>
           history.past = Append(Tail(pre.past), pre.present)

C3_Witness ==
    /\ last.op = "setState"
    /\ ~last.skip
    /\ Len(pre.past) = MAX_HISTORY_LENGTH
    /\ Len(history.past) = MAX_HISTORY_LENGTH

\* C4: setState(next, true) replaces present only; past and future are
\* untouched, so the next undo goes to the last entry of the old past and
\* the present that was overwritten is on neither stack.
C4_SkipReplacesPresentOnly ==
    (last.op = "setState" /\ last.skip) =>
        /\ history.present = last.arg
        /\ history.past = pre.past
        /\ history.future = pre.future
        /\ Len(pre.past) > 0 =>
              /\ undo(history).present = pre.past[Len(pre.past)]
              /\ undo(history).past = undo(pre).past
              /\ undo(history).future = <<last.arg>> \o pre.future

C4_Witness ==
    /\ last.op = "setState"
    /\ last.skip
    /\ Len(pre.past) > 0
    /\ pre.future # <<>>
    /\ pre.present # last.arg

\* C5: undo on an empty past and redo on an empty future change nothing;
\* otherwise undo makes the last entry of past the present and puts the old
\* present at the front of future, and redo is the mirror image.
C5_UndoRedo ==
    /\ last.op = "undo" =>
          IF pre.past = <<>>
          THEN history = pre
          ELSE /\ history.present = pre.past[Len(pre.past)]
               /\ history.past = SubSeq(pre.past, 1, Len(pre.past) - 1)
               /\ history.future = <<pre.present>> \o pre.future
    /\ last.op = "redo" =>
          IF pre.future = <<>>
          THEN history = pre
          ELSE /\ history.present = Head(pre.future)
               /\ history.past = Append(pre.past, pre.present)
               /\ history.future = Tail(pre.future)

C5_Witness ==
    /\ last.op = "undo"
    /\ pre.past = <<>>
    /\ pre.future # <<>>
    /\ history = pre

(***************************************************************************)
(* Claims about the App                                                    *)
(***************************************************************************)
\* the file is a project file: it parses and its __shapes is an array
IsProject(file) == file.valid /\ Get(file.value, "__shapes").t = "array"

\* the state without the alert shown by the last handler
Quiet(R) == [R EXCEPT !.alerts = ""]

\* C6: after loading a file whose __shapes is an array, past and future are
\* empty and present holds the file's shapes and connectors (none when the
\* file has no connectors); undo and redo then change nothing, and the
\* result is the same whatever the stacks held before the load.
C6_LoadResetsHistory ==
    (last.op = "loadJSON" /\ IsProject(last.file)) =>
        LET loaded == Get(last.file.value, "__connectors") IN
        /\ history.past = <<>>
        /\ history.future = <<>>
        /\ history.present.shapes = Get(last.file.value, "__shapes").arr
        /\ history.present.connectors = IF loaded.t = "array" THEN loaded.arr ELSE <<>>
        /\ undo(history) = history
        /\ redo(history) = history
        /\ \A h \in InitHistories : reset(h, history.present) = history

C6_Witness ==
    /\ last.op = "loadJSON"
    /\ IsProject(last.file)
    /\ pre.history.present.shapes # <<>>
    /\ history.present.connectors # <<>>
    /\ history.present # pre.history.present

\* C7: loading a file that does not parse, or whose __shapes is not an
\* array, leaves shapes, connectors, both stacks, the selection, background,
\* canvas size and grid settings as they were and shows an alert.
C7_BadLoadChangesNothing ==
    (last.op = "loadJSON" /\ ~IsProject(last.file)) =>
        /\ Quiet(Now) = Quiet(pre)
        /\ alerts # ""

C7_Witness ==
    /\ last.op = "loadJSON"
    /\ last.file.valid
    /\ Get(last.file.value, "__shapes").t = "string"
    /\ Truthy(Get(last.file.value, "__bg"))
    /\ bg # Get(last.file.value, "__bg").str
    /\ history.present.shapes # <<>>

\* C8: no drag-move adds an entry to past, and a gesture of k >= 0
\* drag-moves and one drag-end adds exactly one entry (below the limit).
C8_DragPushesOneEntry ==
    /\ last.op = "dragMove" => Len(history.past) = Len(pre.history.past)
    /\ (last.op = "dragEnd" /\ Len(history.past) < MAX_HISTORY_LENGTH) =>
           gesture.grow = 1

\* C9: the effects of a batch happen in array order: no action changes the
\* store after an effect of a later action of the batch has begun, and no
\* manual edit falls between two effects of the batch.
C9_BatchSequential ==
    \A p, q \in DOMAIN fx :
        p < q =>
          /\ (fx[p].src = "ai" /\ fx[q].src = "ai" /\ fx[q].on = "store")
                => fx[p].idx <= fx[q].idx
          /\ ~(fx[p].src = "manual" /\ fx[q].src = "ai")

\* the required fields of an edit action
Complete(action) ==
    CASE action.type = "create" ->
            Str(action, "shapeType") /\ Has(action, "properties")
      [] action.type \in {"modify", "move", "resize", "recolor"} ->
            Str(action, "shapeId") /\ Has(action, "properties")
      [] action.type \in {"delete", "ungroup"} -> Str(action, "shapeId")
      [] action.type = "group" ->
            Has(action, "targetIds") /\ Len(action.targetIds) >= 2
      [] action.type = "align" ->
            /\ Has(action, "targetIds")
            /\ Has(action, "properties")
            /\ Str(action.properties, "direction")
      [] OTHER -> FALSE

\* a queued callback without the number of the action that queued it
Unnumbered(t) == [f \in DOMAIN t \ {"idx"} |-> t[f]]

\* C10: executing a batch leaves history, selection, timers and ids as
\* executing the batch without its incomplete actions does; a batch of
\* incomplete actions only changes nothing.
C10_IncompleteActionsSkipped ==
    (last.op = "ai" /\ last.response.success) =>
        LET kept == SelectSeq(last.response.actions, Complete)
            ref == IF kept = <<>>
                   THEN Quiet(pre)
                   ELSE handleExecuteAIActions(Quiet(pre), Closure(pre),
                                               [success |-> TRUE, actions |-> kept])
        IN  /\ history = ref.history
            /\ selectedIds = ref.selectedIds
            /\ nextId = ref.nextId
            /\ Len(timers) = Len(ref.timers)
            /\ \A k \in DOMAIN timers : Unnumbered(timers[k]) = Unnumbered(ref.timers[k])
            /\ <<bg, stageSize, showGrid, gridSize, snapEnabled, alerts>>
                 = <<ref.bg, ref.stageSize, ref.showGrid, ref.gridSize,
                     ref.snapEnabled, ref.alerts>>

C10_Witness ==
    /\ last.op = "ai"
    /\ last.response.success
    /\ Len(last.response.actions) = 2
    /\ ~Complete(last.response.actions[1])
    /\ last.response.actions[1].type = "group"
    /\ Complete(last.response.actions[2])
    /\ history # pre.history

\* the round trip failed, or its response reports failure or holds no action
Failed(outcome) ==
    \/ outcome.kind = "reject"
    \/ ~outcome.ok
    \/ ~outcome.body.valid
    \/ ~Truthy(Get(outcome.body.value, "success"))
    \/ Get(outcome.body.value, "actions") = JArr(<<>>)

\* shapes, connectors, both stacks, the selection and the queued callbacks
\* are as the last handler found them
StoreUntouched ==
    /\ history = pre.history
    /\ selectedIds = pre.selectedIds
    /\ timers = pre.timers
    /\ nextId = pre.nextId
    /\ fx = <<>>

\* C11: when the fetch rejects, the status is not OK, the body does not
\* parse, or the response has success = false or no actions, no edit action
\* runs: shapes, connectors, selection and both stacks are unchanged.  The
\* same holds when such a response is handed to handleExecuteAIActions.
C11_FailedRoundTripAppliesNothing ==
    /\ (last.op = "resume" /\ Failed(last.outcome)) => StoreUntouched
    /\ (last.op = "ai" /\ (~last.response.success \/ last.response.actions = <<>>))
          => StoreUntouched

C11_Witness ==
    /\ last.op = "resume"
    /\ last.outcome.kind = "response"
    /\ ~last.outcome.ok
    /\ last.outcome.body.valid
    /\ Truthy(Get(last.outcome.body.value, "success"))
    /\ Get(last.outcome.body.value, "actions") = JArr(<<NewBox>>)
    /\ Mounted(pre.history)
    /\ pre.history.present.shapes # <<>>
    /\ chat.messages[Len(chat.messages)].role = "assistant"
    /\ ~chat.isProcessing

\* the centre of a shape's bounding box: of (x, y, w, h) for a shape with a
\* width and height (none counts as 0), of (x - r, y - r, 2r, 2r) for a circle
CentreOf(sh) ==
    IF sh.type = "circle"
    THEN [x |-> sh.x, y |-> sh.y]
    ELSE [x |-> sh.x + (IF Has(sh, "width") THEN sh.width \div 2 ELSE 0),
          y |-> sh.y + (IF Has(sh, "height") THEN sh.height \div 2 ELSE 0)]

\* the box contains the other
Contains(outer, inner) ==
    /\ outer.x <= inner.x
    /\ outer.y <= inner.y
    /\ inner.x + inner.w <= outer.x + outer.w
    /\ inner.y + inner.h <= outer.y + outer.h

\* the bounding box the claims give a shape
BoxOf(sh) ==
    IF sh.type = "circle"
    THEN [x |-> sh.x - sh.radius, y |-> sh.y - sh.radius,
          w |-> 2 * sh.radius, h |-> 2 * sh.radius]
    ELSE [x |-> sh.x, y |-> sh.y,
          w |-> IF Has(sh, "width") THEN sh.width ELSE 0,
          h |-> IF Has(sh, "height") THEN sh.height ELSE 0]

\* the canvas state the last handler found
Before == pre.history.present

\* the elements of result stand in the order they have in orig
SameOrder(result, orig) ==
    \A i, j \in DOMAIN result :
        i < j => \E a, b \in DOMAIN orig : a < b /\ orig[a] = result[i] /\ orig[b] = result[j]

\* shapes sh and connectors cs are what is left of the canvas state before
\* once the shapes with an id in S and the connectors that end at one are gone
DeletedFrom(sh, cs, before, S) ==
    LET Linked(c) == c.fromId \in S \/ c.toId \in S
    IN  /\ \A i \in DOMAIN sh : sh[i].id \notin S
        /\ \A i \in DOMAIN cs : ~Linked(cs[i])
        /\ \A j \in DOMAIN before.shapes :
              before.shapes[j].id \notin S => \E i \in DOMAIN sh : sh[i] = before.shapes[j]
        /\ \A j \in DOMAIN before.connectors :
              ~Linked(before.connectors[j]) => \E i \in DOMAIN cs : cs[i] = before.connectors[j]
        /\ Len(sh) = Cardinality({j \in DOMAIN before.shapes : before.shapes[j].id \notin S})
        /\ Len(cs) = Cardinality({j \in DOMAIN before.connectors :
                                     ~Linked(before.connectors[j])})
        /\ SameOrder(sh, before.shapes)
        /\ SameOrder(cs, before.connectors)

\* the two functions deleteSelected hands to setShapes and setConnectors,
\* applied to the lists the handler found, leave what DeletedFrom describes
DeleteUpdatersFilter ==
    (last.op = "deleteSelected" /\ pre.selectedIds # <<>>) =>
        DeletedFrom(ApplyShapes(history.past[Len(history.past)].updater, Before.shapes),
                    ApplyConnectors(history.present.updater, Before.connectors),
                    Before, SeqToSet(pre.selectedIds))

\* C12: after deleting a non-empty selection S the canvas state holds no
\* shape with an id in S and no connector from or to one, holds every other
\* shape and connector in its original relative order, and the selection is
\* empty.
C12_DeleteRemovesSelection ==
    (last.op = "deleteSelected" /\ pre.selectedIds # <<>>) =>
        /\ IsCanvasState(history.present)
        /\ DeletedFrom(history.present.shapes, history.present.connectors,
                       Before, SeqToSet(pre.selectedIds))
        /\ selectedIds = <<>>

\* the shape list result holds the shapes of orig, each as often and as it
\* was; the shapes with an id outside S keep their relative order, and with
\* keepSelected so do the shapes with an id in S
Reordered(result, orig, S, keepSelected) ==
    /\ Len(result) = Len(orig)
    /\ \A j \in DOMAIN orig :
          Cardinality({i \in DOMAIN result : result[i] = orig[j]})
            = Cardinality({i \in DOMAIN orig : orig[i] = orig[j]})
    /\ SameOrder(SelectSeq(result, LAMBDA sh : sh.id \notin S), orig)
    /\ keepSelected => SameOrder(SelectSeq(result, LAMBDA sh : sh.id \in S), orig)

\* the last handler was a z-order operation on a non-empty selection
ZOrdered ==
    /\ last.op \in {"bringForward", "bringToFront", "sendBackward", "sendToBack"}
    /\ pre.selectedIds # <<>>

\* the function a z-order handler hands to setShapes, applied to the list the
\* handler found, only reorders it
ZOrderUpdaterPermutes ==
    ZOrdered =>
        Reordered(ApplyShapes(history.present.updater, Before.shapes), Before.shapes,
                  SeqToSet(pre.selectedIds), last.op \in {"bringToFront", "sendToBack"})

\* C13: after bringForward, sendBackward, bringToFront or sendToBack the shape
\* list is a permutation of the list before (no shape added, lost, duplicated
\* or modified) in which the shapes that are not selected keep their relative
\* order; after bringToFront and sendToBack the selected shapes keep theirs
\* too.
C13_ZOrderPermutes ==
    ZOrdered =>
        /\ IsCanvasState(history.present)
        /\ Reordered(history.present.shapes, Before.shapes, SeqToSet(pre.selectedIds),
                     last.op \in {"bringToFront", "sendToBack"})

\* the last handler grouped a selection of two or more shapes
Grouped == last.op = "groupSelected" /\ Len(pre.selectedIds) >= 2

\* the shape list groupSelected's function makes of the list the handler found
GroupedShapes == ApplyShapes(history.present.updater, Before.shapes)

\* the editor after ungroupSelected, run on the editor that shows GroupedShapes
\* with the new group selected
Ungrouped ==
    LET applied == [Now EXCEPT !.history.present =
                        [shapes |-> GroupedShapes, connectors |-> Before.connectors]]
    IN  ungroupSelected(applied, Closure(applied), 0)

\* the field groupId of a shape; <<>> stands for undefined
GroupIdOf(sh) == IF Has(sh, "groupId") THEN <<sh.groupId>> ELSE <<>>

\* C14: group followed at once by ungroup of the new group gives every member
\* its position and groupId back, gives the shape list its content and order
\* back, and leaves the selection as it was before the group.  Stated of the
\* lists the functions handed to setShapes compute.
C14_GroupUngroupRoundTrip ==
    Grouped =>
        LET restored == ApplyShapes(Ungrouped.history.present.updater, GroupedShapes)
        IN  /\ Len(restored) = Len(Before.shapes)
            /\ \A i \in DOMAIN restored :
                  /\ restored[i].id = Before.shapes[i].id
                  /\ <<restored[i].x, restored[i].y>> = <<Before.shapes[i].x, Before.shapes[i].y>>
                  /\ GroupIdOf(restored[i]) = GroupIdOf(Before.shapes[i])
            /\ restored = Before.shapes
            /\ Ungrouped.selectedIds = pre.selectedIds

\* the smallest box that holds the boxes of the set
UnionBox(boxes) ==
    LET x0 == MathMin({b.x : b \in boxes})
        y0 == MathMin({b.y : b \in boxes})
    IN  [x |-> x0, y |-> y0,
         w |-> MathMax({b.x + b.w : b \in boxes}) - x0,
         h |-> MathMax({b.y + b.h : b \in boxes}) - y0]

\* C15: the rectangle of the group shape groupSelected makes is the union of
\* the members' bounding boxes (rectangle and image: (x, y, w, h); circle:
\* (x - r, y - r, 2r, 2r)), so every member's bounding box lies inside it.
\* Stated for groups of rectangles, images and circles.
C15_GroupBoxIsUnion ==
    Grouped =>
        LET group == history.present.updater.group
            members == {sh \in SeqToSet(Before.shapes) : sh.id \in SeqToSet(pre.selectedIds)}
            rectangle == [x |-> group.x, y |-> group.y, w |-> group.width, h |-> group.height]
        IN  (\A sh \in members : sh.type \in {"rect", "image", "circle"}) =>
                /\ rectangle = UnionBox({BoxOf(sh) : sh \in members})
                /\ \A sh \in members : Contains(rectangle, BoxOf(sh))

\* the last handler aligned a non-empty selection
Aligned == last.op = "alignSelected" /\ pre.selectedIds # <<>>

\* alignSelected's function is idempotent: applied to the list the handler
\* found and then to its own result, it gives what it gives applied once
AlignUpdaterIdempotent ==
    Aligned =>
        LET once == ApplyShapes(history.present.updater, Before.shapes)
        IN  ApplyShapes(history.present.updater, once) = once

\* C16: alignSelected with the same mode, selection and canvas size, applied
\* to the editor it has just aligned, leaves every shape with the x and y the
\* first application gave it.
C16_AlignIdempotent ==
    Aligned =>
        /\ IsCanvasState(history.present)
        /\ LET again == alignSelected(Now, Closure(Now), last.mode, 0)
           IN  /\ IsCanvasState(again.history.present)
               /\ \A i \in DOMAIN history.present.shapes :
                     LET sh == again.history.present.shapes[i]
                     IN  <<sh.x, sh.y>>
                           = <<history.present.shapes[i].x, history.present.shapes[i].y>>

\* the last handler was distribute, on three or more selected shapes
Distributed == last.op = "distribute" /\ Len(pre.selectedIds) >= 3

\* result is orig with only the coordinate on the axis of selected shapes
\* changed, and with a selected shape whose box starts first on the axis and
\* another whose box starts last left as they were
DistributeFrame(result, orig, S, axis) ==
    LET sel == {i \in DOMAIN orig : orig[i].id \in S}
        near(i) == Near(BoxOf(orig[i]), axis)
        coord == IF axis = "h" THEN "x" ELSE "y"
    IN  /\ Len(result) = Len(orig)
        /\ \A i \in DOMAIN orig \ sel : result[i] = orig[i]
        /\ \A i \in sel : result[i] = [orig[i] EXCEPT ![coord] = result[i][coord]]
        /\ \E i, j \in sel :
              /\ i # j
              /\ \A k \in sel : near(i) <= near(k) /\ near(k) <= near(j)
              /\ result[i] = orig[i]
              /\ result[j] = orig[j]

\* distribute's function, applied to the list the handler found, keeps the
\* frame
DistributeUpdaterFrame ==
    Distributed =>
        DistributeFrame(ApplyShapes(history.present.updater, Before.shapes), Before.shapes,
                        SeqToSet(pre.selectedIds), last.axis)

\* C17: distribute(axis) on three or more selected shapes leaves the first and
\* the last of them along the axis and every shape that is not selected as
\* they were, and changes only the coordinate on the axis of the others; on
\* fewer than three selected shapes it changes nothing.
C17_DistributeFrame ==
    /\ (last.op = "distribute" /\ Len(pre.selectedIds) < 3) =>
          history = pre.history /\ selectedIds = pre.selectedIds
    /\ Distributed =>
          /\ IsCanvasState(history.present)
          /\ DistributeFrame(history.present.shapes, Before.shapes,
                             SeqToSet(pre.selectedIds), last.axis)

\* C18: after distribute(axis) on three or more selected shapes, taken in
\* order along the axis their bounding boxes start at strictly increasing
\* positions, and the gap from the far edge of one to the near edge of the
\* next is the same for every consecutive pair.  Stated of the list
\* distribute's function computes.
C18_DistributeEqualGaps ==
    Distributed =>
        LET result == ApplyShapes(history.present.updater, Before.shapes)
            sel == {i \in DOMAIN result : result[i].id \in SeqToSet(pre.selectedIds)}
            near(i) == Near(BoxOf(result[i]), last.axis)
            far(i) == near(i) + Size(BoxOf(result[i]), last.axis)
            Follows(i, j) ==
                near(i) < near(j) /\ ~\E k \in sel : near(i) < near(k) /\ near(k) < near(j)
        IN  /\ \A i, j \in sel : i # j => near(i) # near(j)
            /\ \A i, j, k, l \in sel :
                  (Follows(i, j) /\ Follows(k, l)) => near(j) - far(i) = near(l) - far(k)

\* C19: when a marquee is released the selection is exactly the shapes whose
\* bounding box lies inside the dragged rectangle, in the order of the shape
\* list; the rectangle (0, 0, 50, 50) is not selected by the marquee
\* (0, 0, 40, 40) and is selected by (0, 0, 60, 60).
C19_MarqueeSelectsContained ==
    (last.op = "mouseUp" /\ pre.marquee.isSelecting /\ pre.marquee.selRect # <<>>) =>
        LET rect == pre.marquee.selRect[1]
            shapes == pre.history.present.shapes
            inside == SelectSeq(shapes, LAMBDA sh : Contains(rect, BoxOf(sh)))
        IN  /\ selectedIds = [i \in DOMAIN inside |-> inside[i].id]
            /\ \A i \in DOMAIN shapes :
                  BoxOf(shapes[i]) = [x |-> 0, y |-> 0, w |-> 50, h |-> 50] =>
                     /\ rect = [x |-> 0, y |-> 0, w |-> 40, h |-> 40]
                           => shapes[i].id \notin SeqToSet(selectedIds)
                     /\ rect = [x |-> 0, y |-> 0, w |-> 60, h |-> 60]
                           => shapes[i].id \in SeqToSet(selectedIds)
            /\ ~marquee.isSelecting

C19_Witness ==
    /\ last.op = "mouseUp"
    /\ pre.marquee.isSelecting
    /\ pre.marquee.selRect = <<[x |-> 0, y |-> 0, w |-> 40, h |-> 40]>>
    /\ \E i \in DOMAIN pre.history.present.shapes :
          pre.history.present.shapes[i] = BoxR
    /\ selectedIds = <<>>

\* C20: routeConnector(A, B) is three points: the centre of A's bounding
\* box, a bend, the centre of B's bounding box; the bend is (end.x, start.y)
\* when |dx| > |dy| and (start.x, end.y) otherwise, so both segments are
\* horizontal or vertical; from the rectangle (100, 100, 240, 140) to the
\* circle (300, 300, r = 80) it starts at (220, 170) and ends at (300, 300).
C20_RouteIsElbow ==
    calc.fn = "routeConnector" =>
        LET p == calc.points
            start == CentreOf(calc.from)
            end == CentreOf(calc.to)
            dx == Abs(start.x - end.x)
            dy == Abs(start.y - end.y)
        IN  /\ Len(p) = 6
            /\ <<p[1], p[2]>> = <<start.x, start.y>>
            /\ <<p[5], p[6]>> = <<end.x, end.y>>
            /\ <<p[3], p[4]>> = IF dx > dy THEN <<end.x, start.y>> ELSE <<start.x, end.y>>
            /\ p[1] = p[3] \/ p[2] = p[4]
            /\ p[3] = p[5] \/ p[4] = p[6]
            /\ (calc.from = RectA /\ calc.to = CircleB) =>
                  <<p[1], p[2], p[5], p[6]>> = <<220, 170, 300, 300>>

C20_Witness ==
    /\ calc.fn = "routeConnector"
    /\ calc.from = [id |-> "a", type |-> "rect", x |-> 100, y |-> 100,
                    width |-> 240, height |-> 140]
    /\ calc.to = [id |-> "b", type |-> "circle", x |-> 300, y |-> 300, radius |-> 80]
    /\ calc.points = <<220, 170, 220, 300, 300, 300>>

\* C21 as stated: route(A, B) and route(B, A) make the same horizontal-first
\* or vertical-first choice, and the polyline of route(B, A) is that of
\* route(A, B) with its points in the opposite order.
C21_RouteReversed ==
    calc.fn = "routeConnector" =>
        LET p == calc.points
            q == calc.back
        IN  /\ (p[1] # p[5] /\ p[2] # p[6]) => ((p[2] = p[4]) <=> (q[2] = q[4]))
            /\ q = <<p[5], p[6], p[3], p[4], p[1], p[2]>>

\* C21 as amended: route(A, B) and route(B, A) make the same choice (the
\* first segment of both is horizontal, or of both vertical), route(B, A)
\* starts where route(A, B) ends and ends where it starts, and its bend is
\* the corner opposite to the bend of route(A, B) in the rectangle spanned by
\* the two centres.
C21_RouteSymmetric ==
    calc.fn = "routeConnector" =>
        LET p == calc.points
            q == calc.back
        IN  /\ (p[1] # p[5] /\ p[2] # p[6]) => ((p[2] = p[4]) <=> (q[2] = q[4]))
            /\ <<q[1], q[2]>> = <<p[5], p[6]>>
            /\ <<q[5], q[6]>> = <<p[1], p[2]>>
            /\ <<q[3], q[4]>> = <<p[1] + p[5] - p[3], p[2] + p[6] - p[4]>>

C21_Witness ==
    /\ calc.fn = "routeConnector"
    /\ calc.from = RectA
    /\ calc.to = CircleB
    /\ calc.points = <<220, 170, 220, 300, 300, 300>>
    /\ calc.back = <<300, 300, 300, 170, 220, 170>>

\* the parts of the exported SVG that carry a stored string
Carried == {calc.svg[i] : i \in {k \in DOMAIN calc.svg : Has(calc.svg[k], "val")}}

\* the URL, trimmed and in lower case, starts with a scheme of the denylist
Denylisted(url) ==
    LET u == trim(toLowerCase(url))
    IN  \/ startsWith(u, <<"j", "a", "v", "a", "s", "c", "r", "i", "p", "t", ":">>)
        \/ startsWith(u, <<"d", "a", "t", "a", ":", "t", "e", "x", "t", "/", "h", "t", "m", "l">>)
        \/ startsWith(u, <<"v", "b", "s", "c", "r", "i", "p", "t", ":">>)

\* the entities of the five characters
Entities ==
    [c \in {"&", "<", ">", "\"", "'"} |->
        CASE c = "&" -> <<"&", "a", "m", "p", ";">>
          [] c = "<" -> <<"&", "l", "t", ";">>
          [] c = ">" -> <<"&", "g", "t", ";">>
          [] c = "\"" -> <<"&", "q", "u", "o", "t", ";">>
          [] c = "'" -> <<"&", "a", "p", "o", "s", ";">>]

\* the text holds none of < > " ' and each & in it begins an entity
NoSpecial(text) ==
    \A i \in DOMAIN text :
        /\ text[i] \notin {"<", ">", "\"", "'"}
        /\ text[i] = "&" =>
              \E c \in DOMAIN Entities :
                  /\ i + Len(Entities[c]) - 1 <= Len(text)
                  /\ SubSeq(text, i, i + Len(Entities[c]) - 1) = Entities[c]

\* the string with each of the five characters replaced by its entity
RECURSIVE XMLEscaped(_)
XMLEscaped(str) ==
    IF str = <<>>
    THEN <<>>
    ELSE (IF Head(str) \in DOMAIN Entities THEN Entities[Head(str)] ELSE <<Head(str)>>)
           \o XMLEscaped(Tail(str))

\* the text without its white space
Solid(text) == SelectSeq(text, LAMBDA c : c \notin WhiteSpace)

\* the images exported: the image shapes that are not members of a group
Images ==
    {calc.shapes[i] : i \in {k \in DOMAIN calc.shapes :
                                calc.shapes[k].type = "image" /\ ~Has(calc.shapes[k], "groupId")}}

\* no image with a denylisted URL is exported with a href that carries it
DenylistedNotExported ==
    calc.fn = "exportSVG_Native" =>
        \A s \in Images :
            Denylisted(s.src) => ~\E part \in Carried : part.attr = "href" /\ part.of = s.src

\* C22: the exported SVG has no href carrying the URL of an image whose URL,
\* trimmed and in lower case, starts with javascript:, data:text/html or
\* vbscript:; the URL of any other image (the empty URL aside) is in the
\* SVG as a href, XML-escaped (white space apart).
C22_ImageURLSanitized ==
    calc.fn = "exportSVG_Native" =>
        \A s \in Images :
            IF Denylisted(s.src)
            THEN ~\E part \in Carried : part.attr = "href" /\ part.of = s.src
            ELSE s.src # <<>> =>
                    \E part \in Carried :
                        /\ part.attr = "href"
                        /\ part.of = s.src
                        /\ NoSpecial(part.val)
                        /\ Solid(part.val) = Solid(XMLEscaped(s.src))

\* C23: every stored string written into the exported SVG (text, fill,
\* stroke, background, image URL) is there with each of & < > " ' replaced
\* by its entity: the text written holds none of < > " ' and no & but
\* those that begin an entity, and it is the stored string escaped (white
\* space apart).
C23_StoredStringsEscaped ==
    calc.fn = "exportSVG_Native" =>
        \A part \in Carried :
            /\ NoSpecial(part.val)
            /\ part.attr \in {"text", "href"} => Solid(part.val) = Solid(XMLEscaped(part.of))

\* the last handler was one of the single edits and called the store
Edited ==
    /\ last.op \in {"deleteSelected", "alignSelected", "distribute", "nudge", "duplicate",
                    "dragEnd", "transformEnd"}
    /\ history # pre.history

\* C24: each single editing operation (delete selection, align, distribute,
\* nudge, duplicate, drag end, resize) adds exactly one entry to past, and one
\* undo after it brings back the canvas state, shapes and connectors, from
\* before the operation.
C24_OneEntryPerEdit ==
    Edited =>
        /\ Len(history.past) = Len(pre.history.past) + 1
        /\ undo(history).present = Before

\* the last handler changed the position or the size of a shape
Moved ==
    /\ \/ last.op \in {"dragEnd", "nudge", "alignSelected", "distribute", "transformEnd",
                       "inspector"}
       \/ last.op = "ai" /\ last.response.actions[1].type \in {"move", "resize", "modify"}
    /\ history # pre.history

\* the connectors follow the shapes: each connector whose two endpoint shapes
\* are in the shape list has the points of routeConnector on them
Routed(state) ==
    \A i \in DOMAIN state.connectors :
        LET c == state.connectors[i]
            from == SelectSeq(state.shapes, LAMBDA sh : sh.id = c.fromId)
            to == SelectSeq(state.shapes, LAMBDA sh : sh.id = c.toId)
        IN  (from # <<>> /\ to # <<>>) => c.points = routeConnector(from[1], to[1])

\* each connector of state with an endpoint that is no shape of state is the
\* connector the list before had at its place
Dangling(state, before) ==
    /\ Len(state.connectors) = Len(before.connectors)
    /\ \A i \in DOMAIN state.connectors :
          LET c == state.connectors[i]
          IN  (\E e \in {c.fromId, c.toId} : \A j \in DOMAIN state.shapes : state.shapes[j].id # e)
                  => c = before.connectors[i]

\* C25: after an operation that changes a shape's position or size (drag end,
\* nudge, align, distribute, transform, inspector X/Y, AI move/resize/modify)
\* every connector whose two endpoint shapes exist has the points of route on
\* the current shapes, and a connector with a missing endpoint is kept with
\* the points it had.  Stated of the lists the functions handed to the store
\* compute.
C25_ConnectorsFollowShapes ==
    Moved =>
        LET after == RunCalls(Calls, Before)
        IN  Routed(after) /\ Dangling(after, Before)

\* each connector's fromId and toId are ids of shapes of the state, and each
\* groupId is the id of a group shape of the state
Integrity(state) ==
    /\ \A i \in DOMAIN state.connectors :
          \A e \in {state.connectors[i].fromId, state.connectors[i].toId} :
              \E j \in DOMAIN state.shapes : state.shapes[j].id = e
    /\ \A i \in DOMAIN state.shapes :
          Has(state.shapes[i], "groupId") =>
              \E j \in DOMAIN state.shapes :
                  /\ state.shapes[j].id = state.shapes[i].groupId
                  /\ state.shapes[j].type = "group"

\* the last handler was an editing operation of the list and called the store
Operated ==
    /\ \/ last.op \in {"addRect", "connectSelected", "groupSelected", "ungroupSelected",
                       "duplicate", "deleteSelected"}
       \/ last.op = "ai" /\ last.response.actions[1].type = "delete"
    /\ history # pre.history

\* C26: referential integrity (each connector's fromId and toId are ids of
\* shapes in the shape list, each groupId that is set is the id of a group
\* shape in the list) is kept by add, connect, group, ungroup, duplicate,
\* delete selection and AI delete, so it holds in every state these reach and
\* undo and redo bring back.  Stated of the lists the functions handed to the
\* store compute.
C26_ReferentialIntegrity ==
    (Operated /\ Integrity(Before)) => Integrity(RunCalls(Calls, Before))

\* C27: bringForward moves every selected shape that is not front-most already
\* (a shape that is not selected stands in front of it) exactly one position
\* towards the front, and sendBackward every selected shape that is not
\* back-most already one position towards the back, whatever the order of
\* the selection and also when selected shapes are adjacent.  Stated of the
\* list the function handed to setShapes computes.
C27_ZOrderOneStep ==
    (last.op \in {"bringForward", "sendBackward"} /\ pre.selectedIds # <<>>) =>
        LET result == ApplyShapes(history.present.updater, Before.shapes)
            S == SeqToSet(pre.selectedIds)
            forward == last.op = "bringForward"
            Ahead(i) == {j \in DOMAIN Before.shapes : IF forward THEN j > i ELSE j < i}
        IN  \A i \in DOMAIN Before.shapes :
                (Before.shapes[i].id \in S /\ \E j \in Ahead(i) : Before.shapes[j].id \notin S)
                    => FindIndex([k \in DOMAIN result |-> result[k].id], Before.shapes[i].id)
                         = (IF forward THEN i + 1 ELSE i - 1)

\* the round trip of the last request failed: processCommand yielded nothing
\* or a response whose success is not set
RoundTripFailed ==
    /\ last.op = "resume"
    /\ Mounted(pre.history)
    /\ LET response == processCommand(last.outcome)
       IN  response.t \in {"null", "undefined"} \/ ~Truthy(Get(response, "success"))

\* C28: when the AI round trip fails, no action is applied and the message
\* added to the chat is an assistant message that does not say the requested
\* changes were made.
C28_FailureReported ==
    RoundTripFailed =>
        /\ history = pre.history
        /\ Len(chat.messages) = Len(pre.chat.messages) + 1
        /\ chat.messages[Len(chat.messages)].role = "assistant"
        /\ chat.messages[Len(chat.messages)].content # "I've made the changes you requested."

C30_UpdaterApplied ==
    (Mounted(pre.history) /\ history # pre.history) =>
        /\ IsCanvasState(history.present)
        /\ history.present = RunCalls(Calls, Before)

====
